---- MODULE Spec2Model ----
(***************************************************************************)
(* Cachembed: a caching proxy in front of an embeddings API.               *)
(*                                                                         *)
(* The model covers the cache store (storage.DB: GetEmbedding,             *)
(* StoreEmbedding, DeleteEntriesBeforeWithSleep, GetMaxID), the gc command *)
(* (runGarbageCollection) and the request handler (Handler.handleRequest)  *)
(* with the upstream API as its environment.  Every SQL statement is one   *)
(* atomic step; request handlers and the gc command run concurrently and   *)
(* interleave between statements.                                          *)
(*                                                                         *)
(* Spec is the server alone, SpecStore the server beside one gc run, and   *)
(* SpecGC the gc command with all its flags beside one worker.             *)
(***************************************************************************)
EXTENDS Integers, Sequences, FiniteSets, TLC

(***************************************************************************)
(* Bounds of the model.                                                    *)
(***************************************************************************)
MaxClock == 1        \* the wall clock takes the values 0..MaxClock
MaxID == 3           \* the store hands out the ids 1..MaxID
MaxBatch == 2        \* gc batch sizes are 1..MaxBatch
MaxRequests == 3     \* requests received in one behaviour
MaxGCRuns == 1       \* runs of the gc command in one behaviour
MaxBatches == 4      \* batches of one gc run the model follows

Workers == {"w1", "w2"}          \* concurrently served requests
Versions == {1, 2}               \* distinguishable replies of the upstream for one input
Durations == {0, 1}              \* values of gc --before

(***************************************************************************)
(* Values of the program.                                                  *)
(***************************************************************************)
StatusOK == 200
StatusInternalServerError == 500
StatusBadGateway == 502
StatusBadRequest == 400
StatusUnauthorized == 401
StatusNotFound == 404
StatusMethodNotAllowed == 405
DefaultDimension == 0
ModelDefaultDimensions == 1536

\* sql.ErrNoRows / the empty result of GetEmbedding: the point lookup found nothing.
NoRow == [absent |-> TRUE]
\* The nil Embedding of a zero EmbeddingData.
NilEmbedding == [nil |-> TRUE]

allowedModels == {"text-embedding-ada-002"}
EncodingFormats == {"", "base64"}

\* Strings are sequences of UTF-8 bytes, token sequences are sequences of numbers.
StrA == <<97>>
StrB == <<98>>

\* The decoded JSON inputs the handler accepts, by the Go type they are converted to.
Inputs ==
    { [type |-> "string", value |-> StrA],
      [type |-> "[]string", value |-> <<StrA, StrB>>],
      [type |-> "[]float64", value |-> <<1, 2>>],
      [type |-> "[][]float64", value |-> <<<<1, 2>>, <<3>>>>] }

\* The validated requests of the model; base64 is asked for with the single
\* string input only.
Requests ==
    { q \in [Input : Inputs, Model : allowedModels, EncodingFormat : EncodingFormats,
              Dimensions : {<<>>}] :
        q.EncodingFormat = "base64" => q.Input.type = "string" }

\* The dimensions of a request: absent (<<>>) or one number.  The lookup and
\* the stored row use the request's dimensions if present and else the default.
RequestDimension(req) ==
    IF req.Dimensions = <<>> THEN DefaultDimension ELSE req.Dimensions[1]

\* Requests for one text that differ in model and dimensions, to a server
\* that allows both models.
KeyModels == {"text-embedding-ada-002", "text-embedding-3-small"}
KeyRequests ==
    [Input : {[type |-> "string", value |-> StrA]}, Model : KeyModels,
     EncodingFormat : {""}, Dimensions : {<<>>, <<1536>>}]

\* Requests for one text with and without dimensions.
DimensionRequests ==
    [Input : {[type |-> "string", value |-> StrA]}, Model : allowedModels,
     EncodingFormat : {""}, Dimensions : {<<>>, <<256>>}]

\* The token sequences [2] and [1, 2, 3], the text "1,2,3", and the text of
\* the eight bytes 0x40 0 0 0 0 0 0 0 ("@" and seven NUL characters, in JSON
\* "@\u0000\u0000\u0000\u0000\u0000\u0000\u0000").
StrAtNul == <<64, 0, 0, 0, 0, 0, 0, 0>>
Str123 == <<49, 44, 50, 44, 51>>
CollisionRequests ==
    [Input : { [type |-> "[]float64", value |-> <<2>>],
               [type |-> "string", value |-> StrAtNul],
               [type |-> "[]float64", value |-> <<1, 2, 3>>],
               [type |-> "string", value |-> Str123] },
     Model : allowedModels, EncodingFormat : {""}, Dimensions : {<<>>}]

(***************************************************************************)
(* Hashing of the logical inputs.                                          *)
(***************************************************************************)
RECURSIVE Log2(_)
Log2(n) == IF n <= 1 THEN 0 ELSE 1 + Log2(n \div 2)

RECURSIVE Pow2(_)
Pow2(e) == IF e = 0 THEN 1 ELSE 2 * Pow2(e - 1)

\* binary.BigEndian.PutUint64(math.Float64bits(num)) for a whole number 0 <= num < 4096:
\* sign 0, exponent 1023 + e in 11 bits, then the fraction.  A float64 that is
\* not whole is held as the negative of its double (-3 is 1.5): it has the
\* fraction of its double and an exponent one lower.
Float64Bytes(num) ==
    IF num = 0 THEN <<0, 0, 0, 0, 0, 0, 0, 0>>
    ELSE LET n == IF num < 0 THEN 0 - num ELSE num
             e == Log2(n)
             exp == IF num < 0 THEN 1022 + e ELSE 1023 + e
             frac12 == (n - Pow2(e)) * Pow2(12 - e)
         IN  << exp \div 16, (exp % 16) * 16 + frac12 \div 256, frac12 % 256, 0, 0, 0, 0, 0 >>

RECURSIVE numArrBytes(_)
numArrBytes(nums) ==
    IF nums = <<>> THEN <<>> ELSE Float64Bytes(Head(nums)) \o numArrBytes(Tail(nums))

\* sha1.Sum composed with hex.EncodeToString: an injective function of the bytes.
Sha1Hex(bytes) == <<"sha1">> \o bytes

numArrSha1(nums) == Sha1Hex(numArrBytes(nums))

\* The number of logical inputs of an input.
InputLength(input) ==
    IF input.type \in {"string", "[]float64"} THEN 1 ELSE Len(input.value)

\* The i-th logical input (i from 1) with its kind.
Target(input, i) ==
    CASE input.type = "string" -> [kind |-> "string", value |-> input.value]
      [] input.type = "[]float64" -> [kind |-> "tokens", value |-> input.value]
      [] input.type = "[]string" -> [kind |-> "string", value |-> input.value[i]]
      [] input.type = "[][]float64" -> [kind |-> "tokens", value |-> input.value[i]]

InputHashes(input) ==
    CASE input.type = "string" -> << Sha1Hex(input.value) >>
      [] input.type = "[]float64" -> << numArrSha1(input.value) >>
      [] input.type = "[]string" -> [i \in 1..Len(input.value) |-> Sha1Hex(input.value[i])]
      [] input.type = "[][]float64" -> [i \in 1..Len(input.value) |-> numArrSha1(input.value[i])]

\* PickInputs without the selection: the sub-request carries the whole input.
PickInputsWhole(input, targets) == [ok |-> TRUE, input |-> input]

\* PickInputs that collects the picked inputs in an array whatever the type
\* of the input: a string goes out as []string, a token sequence as [][]float64.
PickInputsAsArray(input, targets) ==
    CASE input.type = "string" ->
            [ok |-> TRUE, input |-> [type |-> "[]string", value |-> << input.value >>]]
      [] input.type = "[]float64" ->
            [ok |-> TRUE, input |-> [type |-> "[][]float64", value |-> << input.value >>]]
      [] input.type \in {"[]string", "[][]float64"} ->
            [ok |-> TRUE,
             input |-> [type |-> input.type,
                        value |-> [k \in 1..Len(targets) |-> input.value[targets[k] + 1]]]]

\* PickInputs: the input of the sub-request for the 0-based indexes in targets;
\* ok is FALSE where the code returns an error.
PickInputs(input, targets) ==
    CASE input.type \in {"string", "[]float64"} ->
            [ok |-> Len(targets) = 1 /\ targets[1] = 0, input |-> input]
      [] input.type \in {"[]string", "[][]float64"} ->
            IF \E k \in 1..Len(targets) : targets[k] >= Len(input.value)
            THEN [ok |-> FALSE, input |-> input]
            ELSE [ok |-> TRUE,
                  input |-> [type |-> input.type,
                             value |-> [k \in 1..Len(targets) |-> input.value[targets[k] + 1]]]]

(***************************************************************************)
(* The HTTP request as it arrives.                                         *)
(***************************************************************************)
\* JSON values: a string of bytes, a number num/den, an array, null, an object,
\* and the absence of a field.
JStr(s) == [str |-> s]
JNum(n, d) == [num |-> n, den |-> d]
JArr(a) == [arr |-> a]
JNull == [null |-> TRUE]
JObj == [obj |-> TRUE]
JMissing == [missing |-> TRUE]

IsStr(j) == "str" \in DOMAIN j
IsNum(j) == "num" \in DOMAIN j
IsArr(j) == "arr" \in DOMAIN j

\* The float64 json.Unmarshal makes of a JSON number.
Float64Of(j) == IF j.den = 1 THEN j.num ELSE 0 - j.num

\* The Authorization header as its words, separated by single spaces: <<>> is
\* the missing header, <<"Bearer", "">> is "Bearer " with nothing behind it.
Authorizations ==
    { <<>>, <<"Basic", "sk-a">>, <<"Bearer">>, <<"Bearer", "">>, <<"Bearer", "sk-a">>,
      <<"Bearer", "xx">>, <<"Bearer", "sk-a", "b">> }

\* --api-key-pattern: "" is no pattern (a nil apiKeyRegexp).
ApiKeyPatterns == {"", "^sk-[a-zA-Z0-9]+$"}

\* regexp.MatchString of the pattern on a token, given as its words.
MatchString(pattern, token) == pattern = "^sk-[a-zA-Z0-9]+$" /\ token = <<"sk-a">>

\* The JSON inputs of the model: the four accepted shapes, and the empty,
\* mixed, nested, fractional and foreign ones.
JsonInputs ==
    { JStr(StrA), JStr(<<>>),
      JArr(<<>>), JArr(<<JStr(StrA)>>), JArr(<<JStr(StrA), JStr(StrB)>>),
      JArr(<<JStr(StrA), JStr(<<>>)>>), JArr(<<JStr(StrA), JNum(1, 1)>>),
      JArr(<<JNum(1, 1), JNum(2, 1)>>), JArr(<<JNum(3, 2)>>), JArr(<<JNum(1, 1), JStr(StrA)>>),
      JArr(<<JArr(<<JNum(1, 1), JNum(2, 1)>>), JArr(<<JNum(3, 1)>>)>>),
      JArr(<<JArr(<<JNum(3, 2)>>)>>),
      JArr(<<JArr(<<JStr(StrA)>>)>>), JArr(<<JArr(<<JNum(1, 1)>>), JNum(2, 1)>>),
      JArr(<<JArr(<<JArr(<<JNum(1, 1)>>)>>)>>),
      JArr(<<JObj>>), JNum(1, 1), JNull, JObj, JMissing }

\* The values of the dimensions field of a body.
JsonDimensions == { JMissing, JNum(1, 1), JNum(256, 1), JNum(10000, 1), JNum(3, 2) }

\* A body that is JSON of an object: the fields the handler may read.
Body(input, model, format, dimensions) ==
    [json |-> TRUE, read |-> TRUE, input |-> input, model |-> model,
     encoding_format |-> format, dimensions |-> dimensions]
NotJSON == [json |-> FALSE, read |-> TRUE]
GoodBody == Body(JStr(StrA), "text-embedding-ada-002", "", JMissing)
\* A body whose reading fails before its end.
Unreadable == [json |-> FALSE, read |-> FALSE]

\* The requests that arrive: every method, path and Authorization header with
\* a good body or an unreadable one, and every body sent by POST to the path
\* with a good key.
RawRequests ==
    [Method : {"POST", "GET"}, Path : {"/v1/embeddings", "/v1/models"},
     Authorization : Authorizations, Body : {GoodBody, Unreadable}]
    \cup
    [Method : {"POST"}, Path : {"/v1/embeddings"}, Authorization : {<<"Bearer", "sk-a">>},
     Body : {NotJSON}
            \cup { Body(j, "text-embedding-ada-002", "", JMissing) : j \in JsonInputs }
            \cup { Body(JStr(StrA), m, "", JMissing) : m \in {"", "text-embedding-3-small"} }
            \cup { Body(JStr(StrA), "text-embedding-ada-002", f, JMissing) :
                     f \in {"float", "base64", "hex"} }
            \cup { Body(JStr(StrA), "text-embedding-ada-002", "", d) : d \in JsonDimensions }]

NoRaw == [Method |-> "", Path |-> "", Authorization |-> <<>>, Body |-> NotJSON]

\* The conversion of the decoded input to the Go type the handler works on;
\* ok is FALSE where the handler returns an error.
NoInput == [type |-> "", value |-> <<>>]
ParseInput(j) ==
    CASE IsStr(j) ->
            IF j.str = <<>> THEN [ok |-> FALSE, input |-> NoInput]
            ELSE [ok |-> TRUE, input |-> [type |-> "string", value |-> j.str]]
      [] IsArr(j) /\ j.arr = <<>> -> [ok |-> FALSE, input |-> NoInput]
      [] IsArr(j) /\ j.arr # <<>> /\ IsNum(j.arr[1]) ->
            IF \A k \in 1..Len(j.arr) : IsNum(j.arr[k])
            THEN [ok |-> TRUE,
                  input |-> [type |-> "[]float64",
                             value |-> [k \in 1..Len(j.arr) |-> Float64Of(j.arr[k])]]]
            ELSE [ok |-> FALSE, input |-> NoInput]
      [] IsArr(j) /\ j.arr # <<>> /\ IsStr(j.arr[1]) ->
            IF \A k \in 1..Len(j.arr) : IsStr(j.arr[k]) /\ j.arr[k].str # <<>>
            THEN [ok |-> TRUE,
                  input |-> [type |-> "[]string",
                             value |-> [k \in 1..Len(j.arr) |-> j.arr[k].str]]]
            ELSE [ok |-> FALSE, input |-> NoInput]
      [] IsArr(j) /\ j.arr # <<>> /\ IsArr(j.arr[1]) ->
            IF \A k \in 1..Len(j.arr) :
                  /\ IsArr(j.arr[k])
                  /\ \A l \in 1..Len(j.arr[k].arr) : IsNum(j.arr[k].arr[l])
            THEN [ok |-> TRUE,
                  input |-> [type |-> "[][]float64",
                             value |-> [k \in 1..Len(j.arr) |->
                                          [l \in 1..Len(j.arr[k].arr) |->
                                             Float64Of(j.arr[k].arr[l])]]]]
            ELSE [ok |-> FALSE, input |-> NoInput]
      [] OTHER -> [ok |-> FALSE, input |-> NoInput]

\* validateEmbeddingRequest: the model is set and allowed, the encoding format
\* is absent, "float" or "base64".
validateEmbeddingRequest(req) ==
    /\ req.Model # ""
    /\ req.Model \in allowedModels
    /\ req.EncodingFormat \in {"", "float", "base64"}

\* validateRequest without the test of the key against the pattern.
validateRequestAnyKey(raw, pattern) ==
    IF raw.Path # "/v1/embeddings" THEN StatusNotFound
    ELSE IF raw.Method # "POST" THEN StatusMethodNotAllowed
    ELSE IF ~ (Len(raw.Authorization) >= 2 /\ raw.Authorization[1] = "Bearer")
         THEN StatusUnauthorized
    ELSE IF Tail(raw.Authorization) = <<"">> THEN StatusUnauthorized
    ELSE 0

\* validateRequest: the status of the error it returns, 0 where it returns nil.
\* The path is examined first, then the method, then the Authorization header.
validateRequest(raw, pattern) ==
    IF raw.Path # "/v1/embeddings" THEN StatusNotFound
    ELSE IF raw.Method # "POST" THEN StatusMethodNotAllowed
    ELSE IF ~ (Len(raw.Authorization) >= 2 /\ raw.Authorization[1] = "Bearer")
         THEN StatusUnauthorized
    ELSE IF Tail(raw.Authorization) = <<"">> THEN StatusUnauthorized
    ELSE IF pattern # "" /\ ~ MatchString(pattern, Tail(raw.Authorization))
         THEN StatusUnauthorized
    ELSE 0

\* The request handleRequest builds of a body it accepts.
DecodedRequest(body) ==
    [Input |-> ParseInput(body.input).input, Model |-> body.model,
     EncodingFormat |-> body.encoding_format, Dimensions |-> <<>>]

\* The requests the handler builds of the bodies of the model.
ParsedRequests ==
    { DecodedRequest(raw.Body) :
        raw \in { r \in RawRequests : r.Body.json /\ ParseInput(r.Body.input).ok
                                       /\ r.Body.model \in allowedModels } }

(***************************************************************************)
(* State.                                                                  *)
(***************************************************************************)
VARIABLES
    rows,       \* the embeddings table: a set of rows
    nextID,     \* the next value of the auto-incrementing primary key
    clock,      \* time.Now().UTC()
    handler,    \* per worker: the locals of Handler.handleRequest and its position
    gc,         \* the locals of the gc command and its position
    received,   \* the number of requests received so far
    lastPut,    \* history: per key, the content of the last StoreEmbedding executed on a row that still exists
    gcBase      \* history: the table and clock when DeleteEntriesBeforeWithSleep was called

vars == <<rows, nextID, clock, handler, gc, received, lastPut, gcBase>>

Key(hash, model, dimension) == <<hash, model, dimension>>
RowKey(r) == Key(r.input_hash, r.model, r.dimension)

\* The keys the requests of the model can address.
Keys ==
    UNION { { Key(InputHashes(q.Input)[i], q.Model, RequestDimension(q)) :
                i \in 1..InputLength(q.Input) } :
              q \in Requests \cup KeyRequests \cup ParsedRequests \cup DimensionRequests
                     \cup CollisionRequests }

(***************************************************************************)
(* The SQL statements of the store, each executed atomically.              *)
(***************************************************************************)
\* The SELECT without its condition on dimension.
sqlGetEmbeddingAnyDimension(hash, model, dimension) ==
    { r \in rows : r.input_hash = hash /\ r.model = model }

\* The SELECT without its condition on input_hash.
sqlGetEmbeddingAnyHash(hash, model, dimension) ==
    { r \in rows : r.model = model /\ r.dimension = dimension }

\* SELECT embedding_data ... WHERE input_hash = $1 AND model = $2 AND dimension = $3
sqlGetEmbedding(hash, model, dimension) ==
    { r \in rows : r.input_hash = hash /\ r.model = model /\ r.dimension = dimension }

\* The UPDATE as an upsert: without a row to update it inserts one.
sqlUpdateLastAccessedUpsert(now, hash, model, dimension) ==
    IF \E r \in rows : r.input_hash = hash /\ r.model = model /\ r.dimension = dimension
    THEN { IF r.input_hash = hash /\ r.model = model /\ r.dimension = dimension
           THEN [r EXCEPT !.last_accessed_at = now]
           ELSE r : r \in rows }
    ELSE rows \cup { [id |-> nextID, input_hash |-> hash, model |-> model,
                      dimension |-> dimension, embedding_data |-> NoRow,
                      created_at |-> now, last_accessed_at |-> now] }

\* UPDATE embeddings SET last_accessed_at = $1 WHERE input_hash = $2 AND model = $3 AND dimension = $4
sqlUpdateLastAccessed(now, hash, model, dimension) ==
    { IF r.input_hash = hash /\ r.model = model /\ r.dimension = dimension
      THEN [r EXCEPT !.last_accessed_at = now]
      ELSE r : r \in rows }

\* The INSERT without the UNIQUE constraint and its ON CONFLICT clause.
sqlStoreEmbeddingInsert(hash, model, dimension, data, created, accessed) ==
    rows \cup { [id |-> nextID, input_hash |-> hash, model |-> model,
                 dimension |-> dimension, embedding_data |-> data,
                 created_at |-> created, last_accessed_at |-> accessed] }

\* The INSERT with ON CONFLICT DO NOTHING: an existing row keeps its content.
sqlStoreEmbeddingKeep(hash, model, dimension, data, created, accessed) ==
    IF \E r \in rows : r.input_hash = hash /\ r.model = model /\ r.dimension = dimension
    THEN rows
    ELSE rows \cup { [id |-> nextID, input_hash |-> hash, model |-> model,
                      dimension |-> dimension, embedding_data |-> data,
                      created_at |-> created, last_accessed_at |-> accessed] }

\* The INSERT that is never committed.
sqlStoreEmbeddingDropped(hash, model, dimension, data, created, accessed) == rows

\* The INSERT as a REPLACE: a row in conflict is deleted and a new row with
\* a new id takes its place.
sqlStoreEmbeddingReplace(hash, model, dimension, data, created, accessed) ==
    { r \in rows : RowKey(r) # Key(hash, model, dimension) }
        \cup { [id |-> nextID, input_hash |-> hash, model |-> model,
                 dimension |-> dimension, embedding_data |-> data,
                 created_at |-> created, last_accessed_at |-> accessed] }

\* The upsert writing the default dimension whatever dimension it is given.
sqlStoreEmbeddingDefaultDimension(hash, model, dimension, data, created, accessed) ==
    IF \E r \in rows : RowKey(r) = Key(hash, model, DefaultDimension)
    THEN { IF RowKey(r) = Key(hash, model, DefaultDimension)
           THEN [r EXCEPT !.embedding_data = data, !.last_accessed_at = accessed]
           ELSE r : r \in rows }
    ELSE rows \cup { [id |-> nextID, input_hash |-> hash, model |-> model,
                      dimension |-> DefaultDimension, embedding_data |-> data,
                      created_at |-> created, last_accessed_at |-> accessed] }

\* INSERT ... VALUES ($1..$6) ON CONFLICT(input_hash, model, dimension) DO UPDATE
\* SET embedding_data = EXCLUDED.embedding_data, last_accessed_at = EXCLUDED.last_accessed_at
sqlStoreEmbedding(hash, model, dimension, data, created, accessed) ==
    IF \E r \in rows : RowKey(r) = Key(hash, model, dimension)
    THEN { IF RowKey(r) = Key(hash, model, dimension)
           THEN [r EXCEPT !.embedding_data = data, !.last_accessed_at = accessed]
           ELSE r : r \in rows }
    ELSE rows \cup { [id |-> nextID, input_hash |-> hash, model |-> model,
                      dimension |-> dimension, embedding_data |-> data,
                      created_at |-> created, last_accessed_at |-> accessed] }

\* The DELETE of the least recently accessed rows: a row in the id range is
\* deleted when no row of the table has an older last_accessed_at.
sqlDeleteEntriesLeastRecent(from, to, threshold) ==
    { r \in rows : ~ (/\ r.id >= from /\ r.id < to
                      /\ \A m \in rows : r.last_accessed_at <= m.last_accessed_at) }

\* The DELETE with an inclusive upper end of the id range.
sqlDeleteEntriesThrough(from, to, threshold) ==
    { r \in rows : ~ (r.id >= from /\ r.id <= to /\ r.last_accessed_at < threshold) }

\* The DELETE that also takes the rows accessed at the threshold itself.
sqlDeleteEntriesBeforeOrAt(from, to, threshold) ==
    { r \in rows : ~ (r.id >= from /\ r.id < to /\ r.last_accessed_at <= threshold) }

\* The DELETE applied in part: of the rows it selects only the one with the
\* lowest id is deleted.
sqlDeleteEntriesInPart(from, to, threshold) ==
    LET selected == { r \in rows : r.id >= from /\ r.id < to /\ r.last_accessed_at < threshold }
    IN  { r \in rows : ~ (r \in selected /\ \A m \in selected : r.id <= m.id) }

\* DELETE FROM embeddings WHERE id >= $1 AND id < $2 AND last_accessed_at < $3
sqlDeleteEntriesBefore(from, to, threshold) ==
    { r \in rows : ~ (r.id >= from /\ r.id < to /\ r.last_accessed_at < threshold) }

\* SELECT COALESCE(MAX(id), 0) FROM embeddings
sqlGetMaxID ==
    IF rows = {} THEN 0
    ELSE CHOOSE m \in { r.id : r \in rows } : \A r \in rows : r.id <= m

\* The history of a key after the table changed from rows to its new value.
PutHistory(key, data) == [lastPut EXCEPT ![key] = data]
DeleteHistory(after) ==
    [k \in Keys |-> IF \E r \in after : RowKey(r) = k THEN lastPut[k] ELSE NoRow]

\* A write of a request handler to the table ends the gc run's time alone with it.
Written(after) ==
    IF after = rows THEN gcBase ELSE [gcBase EXCEPT !.clean = FALSE, !.rows = {}]

(***************************************************************************)
(* The upstream API.                                                       *)
(***************************************************************************)
\* The vector the upstream computes for a logical input under a model; ver
\* tells apart the replies it may give for the same input at different times.
Vector(target, model, dimension, ver) ==
    [input |-> target, model |-> model, dimension |-> dimension, ver |-> ver]

\* The number of float32 values of a vector: the dimensions it was computed
\* for, the model's default where it was computed for none.
Float32Count(vec) ==
    IF vec.dimension > DefaultDimension THEN vec.dimension ELSE ModelDefaultDimensions

\* An embedding as it travels in JSON: a list of numbers or a base64 string.
Floats(vec) == [vec |-> vec, enc |-> "float"]
float32ToBase64(vec) == [vec |-> vec, enc |-> "base64"]

\* The type switch of convertToFloat32Slice: only a list of numbers converts.
convertToFloat32Slice(v) ==
    IF "enc" \in DOMAIN v /\ v.enc = "float"
    THEN [ok |-> TRUE, embedding |-> v.vec]
    ELSE [ok |-> FALSE, embedding |-> NoRow]

ZeroUsage == [PromptTokens |-> 0, TotalTokens |-> 0]
ZeroEmbeddingData == [Object |-> "", Embedding |-> NilEmbedding, Index |-> 0]

\* The reply of the upstream with status 200 to a sub-request: one item per
\* logical input, in order, in the encoding the sub-request asks for.
UpstreamReply(req, ver) ==
    [Data |-> [k \in 1..InputLength(req.Input) |->
                 [Object |-> "embedding",
                  Embedding |-> IF req.EncodingFormat = "base64"
                                THEN float32ToBase64(Vector(Target(req.Input, k), req.Model,
                                                            RequestDimension(req), ver))
                                ELSE Floats(Vector(Target(req.Input, k), req.Model,
                                                   RequestDimension(req), ver)),
                  Index |-> k - 1]],
     Usage |-> [PromptTokens |-> InputLength(req.Input),
                TotalTokens |-> InputLength(req.Input)]]

(***************************************************************************)
(* Handler.handleRequest.                                                  *)
(***************************************************************************)
NoRequest ==
    [Input |-> NoInput, Model |-> "", EncodingFormat |-> "", Dimensions |-> <<>>]
NoReply == [Data |-> <<>>, Usage |-> ZeroUsage]

IdleHandler ==
    [pc |-> "idle", req |-> NoRequest, hashes |-> <<>>, i |-> 0, cache |-> NoRow,
     responseEmbeddingDatas |-> <<>>, missedIndexes |-> <<>>, usage |-> ZeroUsage,
     missedResp |-> NoReply, j |-> 0, t0 |-> 0, status |-> 0, response |-> NoReply,
     upstreamCalls |-> 0, upstreamInput |-> <<>>, upstreamStatus |-> 0,
     errorType |-> "", events |-> {}, repeat |-> FALSE, bumps |-> {},
     raw |-> NoRaw, apiKeyPattern |-> "", upstreamEncodingFormat |-> "",
     upstreamAuthorization |-> <<>>, log |-> <<>>, written |-> 0, upstreamData |-> <<>>]

\* return NewHandlerError(status, ...): the request ends with an error body.
HandlerError(h, status, type, prompt, total) ==
    [h EXCEPT !.pc = "done", !.status = status, !.errorType = type, !.t0 = 0,
              !.i = 0, !.j = 0, !.cache = NoRow, !.missedResp = NoReply,
              !.response = [Data |-> <<>>,
                            Usage |-> [PromptTokens |-> prompt, TotalTokens |-> total]]]

\* A run-time panic in handleRequest: net/http recovers it and closes the
\* connection, the client gets no response (status 0).
Panic(h) ==
    [h EXCEPT !.pc = "done", !.status = 0, !.errorType = "panic", !.t0 = 0,
              !.i = 0, !.j = 0, !.cache = NoRow, !.missedResp = NoReply]

\* The tail of handleRequest reporting one token per input, hits included.
RespondCountingHits(h) ==
    [h EXCEPT !.pc = "done", !.status = StatusOK, !.t0 = 0,
              !.i = 0, !.j = 0, !.cache = NoRow, !.missedResp = NoReply,
              !.response = [Data |-> h.responseEmbeddingDatas,
                            Usage |-> [PromptTokens |-> Len(h.hashes),
                                       TotalTokens |-> Len(h.hashes)]]]

\* The tail of handleRequest with the dimensions of the body validated there,
\* after the lookups and the fill: a value that is not an integer strictly
\* between 1 and 10000 is answered 400.
RespondValidatingDimensions(h) ==
    IF /\ h.raw.Body.dimensions # JMissing
       /\ ~ (/\ h.raw.Body.dimensions.den = 1
              /\ h.raw.Body.dimensions.num > 1
              /\ h.raw.Body.dimensions.num < 10000)
    THEN HandlerError(h, StatusBadRequest, "invalid_request_error", 0, 0)
    ELSE RespondCountingHits(h)

\* The tail of handleRequest answering a string input with its one embedding
\* beside the data list, not in it.
RespondScalar(h) ==
    [h EXCEPT !.pc = "done", !.status = StatusOK, !.t0 = 0,
              !.i = 0, !.j = 0, !.cache = NoRow, !.missedResp = NoReply,
              !.response = [Data |-> IF h.req.Input.type = "string" THEN <<>>
                                     ELSE h.responseEmbeddingDatas,
                            Usage |-> h.usage]]

\* The tail of handleRequest: the encoding step, the response and status 200.
\* The encoding step hands the whole EmbeddingData to convertToFloat32Slice.
Respond(h) ==
    LET encoded == [k \in 1..Len(h.responseEmbeddingDatas) |->
                      IF h.req.EncodingFormat = "base64"
                         /\ convertToFloat32Slice(h.responseEmbeddingDatas[k]).ok
                      THEN [h.responseEmbeddingDatas[k] EXCEPT
                              !.Embedding = float32ToBase64(
                                  convertToFloat32Slice(h.responseEmbeddingDatas[k]).embedding)]
                      ELSE h.responseEmbeddingDatas[k]]
        data == IF Len(h.hashes) = 1
                THEN << [Object |-> "embedding", Embedding |-> encoded[1].Embedding, Index |-> 0] >>
                ELSE encoded
    IN  [h EXCEPT !.pc = "done", !.status = StatusOK, !.t0 = 0,
                  !.i = 0, !.j = 0, !.cache = NoRow, !.missedResp = NoReply,
                  !.responseEmbeddingDatas = encoded,
                  !.response = [Data |-> data, Usage |-> h.usage]]

\* The lookup loop ending one hash early.
NextLookupShort(h) ==
    IF h.i < Len(h.hashes) - 1 THEN [h EXCEPT !.i = h.i + 1, !.pc = "lookup", !.t0 = 0]
    ELSE IF Len(h.missedIndexes) > 0 THEN [h EXCEPT !.i = h.i + 1, !.pc = "upstream", !.t0 = 0]
    ELSE Respond([h EXCEPT !.i = h.i + 1])

\* The end of one iteration of the lookup loop.  (t0 is the time of the
\* handler's last step where its next statement stamps a time, else 0.)
NextLookup(h) ==
    IF h.i < Len(h.hashes) THEN [h EXCEPT !.i = h.i + 1, !.pc = "lookup", !.t0 = 0]
    ELSE IF Len(h.missedIndexes) > 0 THEN [h EXCEPT !.i = h.i + 1, !.pc = "upstream", !.t0 = 0]
    ELSE Respond([h EXCEPT !.i = h.i + 1])

\* A request arrives: validated, parsed and hashed, it enters the lookup loop.
\* (repeat records that an identical request has been answered 200 before,
\* without a failed StoreEmbedding.)
Receive(w, q) ==
    /\ handler[w].pc \in {"idle", "done"}
    /\ received < MaxRequests
    /\ received' = received + 1
    /\ handler' = [handler EXCEPT ![w] =
          [IdleHandler EXCEPT !.pc = "lookup", !.req = q,
                              !.hashes = InputHashes(q.Input), !.i = 1,
                              !.responseEmbeddingDatas =
                                  [k \in 1..InputLength(q.Input) |-> ZeroEmbeddingData],
                              !.t0 = 0,
                              !.repeat = \E u \in Workers :
                                            /\ handler[u].pc = "done"
                                            /\ handler[u].status = StatusOK
                                            /\ handler[u].req = q
                                            /\ "putFailed" \notin handler[u].events]]
    /\ UNCHANGED <<rows, nextID, clock, gc, lastPut, gcBase>>

\* The SELECT of a lookup loop that lists a missed hash once: a miss on a hash
\* that is among the misses already adds no index.
GetEmbeddingQueryOncePerHash(w) ==
    LET h == handler[w]
        found == sqlGetEmbedding(h.hashes[h.i], h.req.Model, RequestDimension(h.req))
        listed == \E m \in 1..Len(h.missedIndexes) :
                     h.hashes[h.missedIndexes[m] + 1] = h.hashes[h.i]
    IN  /\ h.pc = "lookup"
        /\ \/ /\ found = {}
              /\ handler' = [handler EXCEPT ![w] =
                    NextLookup([h EXCEPT !.missedIndexes =
                                            IF listed THEN h.missedIndexes
                                            ELSE Append(h.missedIndexes, h.i - 1),
                                         !.t0 = clock])]
           \/ \E r \in found :
                 handler' = [handler EXCEPT ![w] =
                    [h EXCEPT !.pc = "bump", !.cache = r.embedding_data, !.t0 = clock]]
        /\ UNCHANGED <<rows, nextID, clock, gc, received, lastPut, gcBase>>

\* GetEmbedding, the SELECT: no row is a miss, a row is read and awaits its bump.
GetEmbeddingQuery(w) ==
    LET h == handler[w]
        found == sqlGetEmbedding(h.hashes[h.i], h.req.Model, RequestDimension(h.req))
    IN  /\ h.pc = "lookup"
        /\ \/ /\ found = {}
              /\ handler' = [handler EXCEPT ![w] =
                    NextLookup([h EXCEPT !.missedIndexes = Append(h.missedIndexes, h.i - 1),
                                         !.t0 = clock])]
           \/ \E r \in found :
                 handler' = [handler EXCEPT ![w] =
                    [h EXCEPT !.pc = "bump", !.cache = r.embedding_data, !.t0 = clock]]
        /\ UNCHANGED <<rows, nextID, clock, gc, received, lastPut, gcBase>>

\* GetEmbedding, the UPDATE of last_accessed_at with a time read after the
\* SELECT, and the return to the loop, which files the hit under index i.
\* (events records "bumpLost" when the UPDATE matched no row; bumps records
\* the hash and the time of every UPDATE of the request that matched a row.)
GetEmbeddingTouch(w) ==
    LET h == handler[w]
        lost == IF sqlGetEmbedding(h.hashes[h.i], h.req.Model, RequestDimension(h.req)) = {}
                THEN {"bumpLost"} ELSE {}
    IN  /\ h.pc = "bump"
        /\ \E now \in h.t0..clock :
              /\ rows' = sqlUpdateLastAccessed(now, h.hashes[h.i], h.req.Model,
                                                   RequestDimension(h.req))
              /\ gcBase' = Written(rows')
              /\ handler' = [handler EXCEPT ![w] =
                    NextLookup([h EXCEPT !.responseEmbeddingDatas[h.i] =
                                             [Object |-> "embedding",
                                              Embedding |-> Floats(h.cache),
                                              Index |-> h.i - 1],
                                         !.cache = NoRow, !.t0 = clock,
                                         !.events = h.events \cup lost,
                                         !.bumps = IF lost = {}
                                                   THEN h.bumps \cup
                                                          {[hash |-> h.hashes[h.i], now |-> now]}
                                                   ELSE h.bumps])]
        /\ UNCHANGED <<nextID, clock, gc, received, lastPut>>

\* The Authorization header of the call with the key alone behind "Bearer".
AuthorizationHeaderOfKey(authHeader) ==
    IF authHeader = <<>> THEN <<>> ELSE <<"Bearer", authHeader[Len(authHeader)]>>

\* httpReq.Header.Set("Authorization", authHeader): the header of the call.
AuthorizationHeader(authHeader) == authHeader

\* (upstreamData is the data array of the reply of the call.)
\* The Fill step: one call of the upstream for the missed inputs.  The upstream
\* answers 200 with a reply, answers with an HTTP error whose body is the JSON
\* of an error, answers with an HTTP error whose body is not JSON (the client
\* returns "failed to decode error response", not an UpstreamError), or cannot
\* be reached.  (upstreamStatus is the status the upstream answered with, 0
\* when it did not answer.)
\* upstreamEncodingFormat and upstreamAuthorization are the encoding_format of
\* the body and the Authorization header of the call.
CreateEmbedding(w) ==
    LET h == handler[w]
        picked == PickInputs(h.req.Input, h.missedIndexes)
        missedReq == [Input |-> picked.input, Model |-> h.req.Model,
                      EncodingFormat |-> h.req.EncodingFormat,
                      Dimensions |-> h.req.Dimensions]
        called == [h EXCEPT !.upstreamCalls = h.upstreamCalls + 1,
                            !.upstreamInput = << missedReq.Input >>,
                            !.upstreamEncodingFormat = missedReq.EncodingFormat,
                            !.upstreamAuthorization =
                                AuthorizationHeader(h.raw.Authorization),
                            !.t0 = clock]
    IN  /\ h.pc = "upstream"
        /\ IF ~ picked.ok
           THEN handler' = [handler EXCEPT ![w] =
                   HandlerError([h EXCEPT !.t0 = clock], StatusInternalServerError,
                                "internal_error", 0, 0)]
           ELSE \/ \E ver \in Versions :
                      handler' = [handler EXCEPT ![w] =
                         [called EXCEPT !.pc = "persist", !.j = 1,
                                        !.upstreamStatus = StatusOK,
                                        !.upstreamData = UpstreamReply(missedReq, ver).Data,
                                        !.missedResp = UpstreamReply(missedReq, ver)]]
                \/ handler' = [handler EXCEPT ![w] =
                      HandlerError([called EXCEPT !.upstreamStatus = StatusBadRequest],
                                   StatusBadRequest, "upstream_error", 0, 0)]
                \/ handler' = [handler EXCEPT ![w] =
                      HandlerError([called EXCEPT !.upstreamStatus = StatusBadRequest],
                                   StatusBadGateway, "upstream_error", 0, 0)]
                \/ handler' = [handler EXCEPT ![w] =
                      HandlerError(called, StatusBadGateway, "upstream_error", 0, 0)]
        /\ UNCHANGED <<rows, nextID, clock, gc, received, lastPut, gcBase>>

\* The Fill step with an upstream that does not know the dimensions field:
\* it answers 200 with the vectors of the model's default dimension.
CreateEmbeddingIgnoringDimensions(w) ==
    LET h == handler[w]
        picked == PickInputs(h.req.Input, h.missedIndexes)
        missedReq == [Input |-> picked.input, Model |-> h.req.Model,
                      EncodingFormat |-> h.req.EncodingFormat,
                      Dimensions |-> h.req.Dimensions]
    IN  /\ h.pc = "upstream"
        /\ picked.ok
        /\ h.req.Dimensions # <<>>
        /\ \E ver \in Versions :
              handler' = [handler EXCEPT ![w] =
                 [h EXCEPT !.upstreamCalls = h.upstreamCalls + 1,
                           !.upstreamInput = << missedReq.Input >>,
                           !.upstreamEncodingFormat = missedReq.EncodingFormat,
                           !.upstreamAuthorization = AuthorizationHeader(h.raw.Authorization),
                           !.t0 = clock, !.pc = "persist", !.j = 1,
                           !.upstreamStatus = StatusOK,
                           !.upstreamData =
                               UpstreamReply([missedReq EXCEPT !.Dimensions = <<>>], ver).Data,
                           !.missedResp = UpstreamReply([missedReq EXCEPT !.Dimensions = <<>>],
                                                        ver)]]
        /\ UNCHANGED <<rows, nextID, clock, gc, received, lastPut, gcBase>>

\* The data arrays an upstream may answer with in place of data: one item
\* short, one item long, and the items in reverse order with their index
\* fields kept.
UnexpectedData(data) ==
    { SubSeq(data, 1, Len(data) - 1),
      Append(data, [data[1] EXCEPT !.Index = Len(data)]) }
    \cup { [k \in 1..Len(data) |-> data[Len(data) + 1 - k]] : n \in {Len(data)} \ {1} }

\* The Fill step with an upstream that answers 200 with an unexpected data
\* array.  The Persist loop runs over the items of the reply; with none it
\* is skipped.
CreateEmbeddingUnexpected(w) ==
    LET h == handler[w]
        picked == PickInputs(h.req.Input, h.missedIndexes)
        missedReq == [Input |-> picked.input, Model |-> h.req.Model,
                      EncodingFormat |-> h.req.EncodingFormat,
                      Dimensions |-> h.req.Dimensions]
    IN  /\ h.pc = "upstream"
        /\ picked.ok
        /\ \E ver \in Versions :
              \E data \in UnexpectedData(UpstreamReply(missedReq, ver).Data) :
                 LET called == [h EXCEPT !.upstreamCalls = h.upstreamCalls + 1,
                                         !.upstreamInput = << missedReq.Input >>,
                                         !.upstreamEncodingFormat = missedReq.EncodingFormat,
                                         !.upstreamAuthorization =
                                             AuthorizationHeader(h.raw.Authorization),
                                         !.t0 = clock, !.upstreamStatus = StatusOK,
                                         !.upstreamData = data]
                     usage == UpstreamReply(missedReq, ver).Usage
                 IN  handler' = [handler EXCEPT ![w] =
                        IF data = <<>>
                        THEN Respond([called EXCEPT !.usage = usage])
                        ELSE [called EXCEPT !.pc = "persist", !.j = 1,
                                            !.missedResp = [Data |-> data, Usage |-> usage]]]
        /\ UNCHANGED <<rows, nextID, clock, gc, received, lastPut, gcBase>>

\* One iteration of the Persist loop: convert item j of the reply, store it
\* under the hash of the j-th missed input with a time read before the
\* statement runs, and file it in the response at the missed input's index.
StoreEmbedding(w) ==
    LET h == handler[w]
        data == h.missedResp.Data[h.j]
        conv == convertToFloat32Slice(data.Embedding)
        index == h.missedIndexes[h.j]
        hash == h.hashes[index + 1]
        filed == [h EXCEPT !.responseEmbeddingDatas[index + 1] = data, !.t0 = clock]
    IN  /\ h.pc = "persist"
        /\ IF ~ conv.ok
           THEN /\ handler' = [handler EXCEPT ![w] =
                      HandlerError([h EXCEPT !.t0 = clock], StatusInternalServerError,
                                "internal_error", 0, 0)]
                /\ UNCHANGED <<rows, nextID, lastPut, gcBase>>
           ELSE IF h.j > Len(h.missedIndexes)
           THEN /\ handler' = [handler EXCEPT ![w] = Panic([h EXCEPT !.t0 = clock])]
                /\ UNCHANGED <<rows, nextID, lastPut, gcBase>>
           ELSE /\ \E now \in h.t0..clock :
                      rows' = sqlStoreEmbedding(hash, h.req.Model, RequestDimension(h.req),
                                                conv.embedding, now, now)
                /\ Cardinality(rows') > Cardinality(rows) => nextID <= MaxID
                /\ nextID' = IF Cardinality(rows') > Cardinality(rows) THEN nextID + 1 ELSE nextID
                /\ lastPut' = PutHistory(Key(hash, h.req.Model, RequestDimension(h.req)),
                                      conv.embedding)
                /\ gcBase' = Written(rows')
                /\ handler' = [handler EXCEPT ![w] =
                      IF h.j < Len(h.missedResp.Data)
                      THEN [filed EXCEPT !.j = h.j + 1]
                      ELSE Respond([filed EXCEPT !.j = h.j + 1, !.usage = h.missedResp.Usage])]
        /\ UNCHANGED <<clock, gc, received>>

(***************************************************************************)
(* Handler.ServeHTTP: the request from its arrival to the lookup loop, and *)
(* the completion log.                                                     *)
(***************************************************************************)
\* A request arrives at a server started with some --api-key-pattern: the
\* body is read, the request line and the Authorization header are validated,
\* the body is decoded, its input converted, the request validated and
\* hashed.  Every failure returns a HandlerError of type invalid_request_error.
ServeHTTP(w, raw) ==
    /\ handler[w].pc \in {"idle", "completed"}
    /\ received < MaxRequests
    /\ received' = received + 1
    /\ \E pattern \in ApiKeyPatterns :
          LET arrived == [IdleHandler EXCEPT !.raw = raw, !.apiKeyPattern = pattern]
              q == DecodedRequest(raw.Body)
          IN  handler' = [handler EXCEPT ![w] =
                 IF ~ raw.Body.read
                 THEN HandlerError(arrived, StatusBadRequest, "invalid_request_error", 0, 0)
                 ELSE IF validateRequest(raw, pattern) # 0
                 THEN HandlerError(arrived, validateRequest(raw, pattern),
                                   "invalid_request_error", 0, 0)
                 ELSE IF ~ raw.Body.json
                 THEN HandlerError(arrived, StatusBadRequest, "invalid_request_error", 0, 0)
                 ELSE IF ~ ParseInput(raw.Body.input).ok
                 THEN HandlerError(arrived, StatusBadRequest, "invalid_request_error", 0, 0)
                 ELSE IF ~ validateEmbeddingRequest(q)
                 THEN HandlerError(arrived, StatusBadRequest, "invalid_request_error", 0, 0)
                 ELSE [arrived EXCEPT
                          !.pc = "lookup", !.req = q,
                          !.hashes = InputHashes(q.Input), !.i = 1,
                          !.responseEmbeddingDatas =
                              [k \in 1..InputLength(q.Input) |-> ZeroEmbeddingData],
                          !.repeat = \E u \in Workers :
                                        /\ handler[u].pc \in {"done", "completed"}
                                        /\ handler[u].status = StatusOK
                                        /\ handler[u].req = q
                                        /\ "putFailed" \notin handler[u].events]]
    /\ UNCHANGED <<rows, nextID, clock, gc, lastPut, gcBase>>

\* The end of ServeHTTP.  After status 200 the body is encoded to the client:
\* handleRequest returns nil and the request is logged with status 200, or the
\* encoding fails, handleRequest returns its error and the request is logged as
\* an unexpected error with status 500, the header with status 200 already
\* written.  A HandlerError is logged with its status and then written.
\* (written is the status of the response on the wire.)
Complete(w) ==
    LET h == handler[w]
    IN  /\ h.pc = "done"
        /\ \/ /\ h.errorType = ""
              /\ handler' = [handler EXCEPT ![w] =
                    [h EXCEPT !.pc = "completed", !.written = StatusOK,
                              !.log = Append(h.log, [message |-> "request completed",
                                                     level |-> "INFO",
                                                     status |-> StatusOK])]]
           \/ /\ h.errorType = ""
              /\ handler' = [handler EXCEPT ![w] =
                    [h EXCEPT !.pc = "completed", !.written = StatusOK,
                              !.log = Append(h.log, [message |-> "unexpected error",
                                                     level |-> "ERROR",
                                                     status |-> StatusInternalServerError])]]
           \/ /\ h.errorType \notin {"", "panic"}
              /\ handler' = [handler EXCEPT ![w] =
                    [h EXCEPT !.pc = "completed", !.written = h.status,
                              !.log = Append(h.log,
                                         [message |-> "request completed",
                                          level |-> IF h.status >= StatusInternalServerError
                                                    THEN "ERROR" ELSE "INFO",
                                          status |-> h.status])]]
        /\ UNCHANGED <<rows, nextID, clock, gc, received, lastPut, gcBase>>

(***************************************************************************)
(* Failures of the store: a statement that returns an error leaves the     *)
(* table as it was.  (events records which statement failed.)              *)
(***************************************************************************)
\* A failed SELECT taken for a miss.
GetFailureAsMiss(h) ==
    NextLookup([h EXCEPT !.missedIndexes = Append(h.missedIndexes, h.i - 1),
                         !.t0 = clock, !.events = h.events \cup {"getFailed"}])

\* The handler after GetEmbedding returned an error: 500 internal_error.
GetFailure(h) ==
    HandlerError([h EXCEPT !.t0 = clock, !.events = h.events \cup {"getFailed"}],
                 StatusInternalServerError, "internal_error", 0, 0)

\* A failed UPDATE returned to the handler as an error of GetEmbedding.
BumpFailureAsError(h) ==
    HandlerError([h EXCEPT !.t0 = clock, !.events = h.events \cup {"bumpFailed"}],
                 StatusInternalServerError, "internal_error", 0, 0)

\* The handler after the UPDATE of GetEmbedding failed: the error is logged,
\* the content read is returned and filed as a hit.
BumpFailure(h) ==
    NextLookup([h EXCEPT !.responseEmbeddingDatas[h.i] =
                             [Object |-> "embedding", Embedding |-> Floats(h.cache),
                              Index |-> h.i - 1],
                         !.cache = NoRow, !.t0 = clock,
                         !.events = h.events \cup {"bumpFailed"}])

\* A failed StoreEmbedding that ends the request with an error.
StoreFailureAsError(h) ==
    HandlerError([h EXCEPT !.t0 = clock, !.events = h.events \cup {"putFailed"}],
                 StatusInternalServerError, "internal_error", 0, 0)

\* The handler after StoreEmbedding returned an error: the error is logged,
\* the item is filed in the response and the loop goes on.
StoreFailure(h) ==
    LET index == h.missedIndexes[h.j]
        filed == [h EXCEPT !.responseEmbeddingDatas[index + 1] = h.missedResp.Data[h.j],
                           !.t0 = clock, !.events = h.events \cup {"putFailed"}]
    IN  IF h.j < Len(h.missedResp.Data)
        THEN [filed EXCEPT !.j = h.j + 1]
        ELSE Respond([filed EXCEPT !.j = h.j + 1, !.usage = h.missedResp.Usage])

GetEmbeddingFails(w) ==
    /\ handler[w].pc = "lookup"
    /\ handler' = [handler EXCEPT ![w] = GetFailure(handler[w])]
    /\ UNCHANGED <<rows, nextID, clock, gc, received, lastPut, gcBase>>

GetEmbeddingTouchFails(w) ==
    /\ handler[w].pc = "bump"
    /\ handler' = [handler EXCEPT ![w] = BumpFailure(handler[w])]
    /\ UNCHANGED <<rows, nextID, clock, gc, received, lastPut, gcBase>>

StoreEmbeddingFails(w) ==
    /\ handler[w].pc = "persist"
    /\ convertToFloat32Slice(handler[w].missedResp.Data[handler[w].j].Embedding).ok
    /\ handler' = [handler EXCEPT ![w] = StoreFailure(handler[w])]
    /\ UNCHANGED <<rows, nextID, clock, gc, received, lastPut, gcBase>>

(***************************************************************************)
(* The gc command.                                                         *)
(***************************************************************************)
GCCmds == [Before : Durations, StartID : {0, 2}, EndID : {0, MaxID}, Batch : 1..MaxBatch]

IdleGC ==
    [pc |-> "idle", cmd |-> [Before |-> 0, StartID |-> 0, EndID |-> 0, Batch |-> 1],
     maxID |-> 0, endID |-> 0, thresholdTime |-> 0, currentID |-> 0, runs |-> 0,
     replayed |-> FALSE, prevThreshold |-> 0, prevEndID |-> 0, batches |-> <<>>]

\* The flags the gc command accepts: --batch is any integer.
AcceptedGCCmds == [Before : {0}, StartID : {0, 1}, EndID : {0, MaxID + 1}, Batch : -1..MaxBatch]

\* runGarbageCollection up to the call of DeleteEntriesBeforeWithSleep:
\* GetMaxID, and the choice of endID when --end-id is not given.
runGarbageCollection(cmd) ==
    /\ gc.pc \in {"idle", "done"}
    /\ gc.runs < MaxGCRuns
    /\ gc' = [IdleGC EXCEPT !.pc = "delete", !.cmd = cmd, !.maxID = sqlGetMaxID,
                            !.runs = gc.runs + 1,
                            !.endID = IF cmd.EndID = 0 THEN sqlGetMaxID ELSE cmd.EndID]
    /\ UNCHANGED <<rows, nextID, clock, handler, received, lastPut, gcBase>>

\* The gc command run a second time with the flags of the run that has ended.
\* (replayed, prevThreshold and prevEndID record the run before.)
rerunGarbageCollection ==
    /\ gc.pc = "done"
    /\ ~ gc.replayed
    /\ gc' = [IdleGC EXCEPT !.pc = "delete", !.cmd = gc.cmd, !.maxID = sqlGetMaxID,
                            !.runs = gc.runs,
                            !.endID = IF gc.cmd.EndID = 0 THEN sqlGetMaxID ELSE gc.cmd.EndID,
                            !.replayed = TRUE, !.prevThreshold = gc.thresholdTime,
                            !.prevEndID = gc.endID]
    /\ UNCHANGED <<rows, nextID, clock, handler, received, lastPut, gcBase>>

\* DeleteEntriesBeforeWithSleep up to its loop: the threshold is fixed.
\* (gcBase is taken at the first run and kept by a second one.)
DeleteEntriesBeforeWithSleep ==
    /\ gc.pc = "delete"
    /\ gc' = [gc EXCEPT !.thresholdTime = clock - gc.cmd.Before,
                        !.currentID = gc.cmd.StartID,
                        !.pc = IF gc.cmd.StartID < gc.endID THEN "batch" ELSE "done"]
    /\ gcBase' = IF gc.replayed THEN gcBase
                  ELSE [clean |-> TRUE, rows |-> rows, now |-> clock]
    /\ UNCHANGED <<rows, nextID, clock, handler, received, lastPut>>

\* The iteration with a DELETE over [currentID, currentID + batchSize) that is
\* not cut at endID.
DeleteBatchUncut ==
    LET batchEndID == gc.currentID + gc.cmd.Batch - 1
    IN  /\ gc.pc = "batch"
        /\ Len(gc.batches) < MaxBatches
        /\ rows' = sqlDeleteEntriesBefore(gc.currentID, batchEndID + 1, gc.thresholdTime)
        /\ lastPut' = DeleteHistory(rows')
        /\ gc' = [gc EXCEPT !.currentID = batchEndID + 1,
                            !.batches = Append(gc.batches, <<gc.currentID, batchEndID + 1>>),
                            !.pc = IF batchEndID + 1 < gc.endID THEN "batch" ELSE "done"]
        /\ UNCHANGED <<nextID, clock, handler, received, gcBase>>

\* One iteration of the loop: one DELETE over [currentID, batchEndID + 1).
\* (batches records the id range of every DELETE of the run.)
DeleteBatch ==
    LET stop == gc.currentID + gc.cmd.Batch - 1
        batchEndID == IF stop >= gc.endID THEN gc.endID - 1 ELSE stop
    IN  /\ gc.pc = "batch"
        /\ Len(gc.batches) < MaxBatches
        /\ rows' = sqlDeleteEntriesBefore(gc.currentID, batchEndID + 1, gc.thresholdTime)
        /\ lastPut' = DeleteHistory(rows')
        /\ gc' = [gc EXCEPT !.currentID = batchEndID + 1,
                            !.batches = Append(gc.batches, <<gc.currentID, batchEndID + 1>>),
                            !.pc = IF batchEndID + 1 < gc.endID THEN "batch" ELSE "done"]
        /\ UNCHANGED <<nextID, clock, handler, received, gcBase>>

\* An iteration whose DELETE returns an error, or during which the command
\* is stopped: the statement has no effect and the command ends.
DeleteBatchFails ==
    /\ gc.pc = "batch"
    /\ gc' = [gc EXCEPT !.pc = "failed"]
    /\ UNCHANGED <<rows, nextID, clock, handler, received, lastPut, gcBase>>

(***************************************************************************)
(* The clock and the specification.                                        *)
(***************************************************************************)
Tick ==
    /\ clock < MaxClock
    /\ clock' = clock + 1
    /\ UNCHANGED <<rows, nextID, handler, gc, received, lastPut, gcBase>>

Init ==
    /\ rows = {}
    /\ nextID = 1
    /\ clock = 0
    /\ handler = [w \in Workers |-> IdleHandler]
    /\ gc = IdleGC
    /\ received = 0
    /\ lastPut = [k \in Keys |-> NoRow]
    /\ gcBase = [clean |-> FALSE, rows |-> {}, now |-> 0]

\* The server under load: two workers serve every request of the model.
Next ==
    \/ \E w \in Workers, q \in Requests : Receive(w, q)
    \/ \E w \in Workers : GetEmbeddingQuery(w)
    \/ \E w \in Workers : GetEmbeddingTouch(w)
    \/ \E w \in Workers : CreateEmbedding(w)
    \/ \E w \in Workers : StoreEmbedding(w)
    \/ Tick

Spec == Init /\ [][Next]_vars

\* The server and the gc command on one store: two workers serve the text
\* requests while one gc run sweeps the low ids in batches of MaxBatch.
StoreRequests ==
    { q \in Requests : q.Input.type \in {"string", "[]string"} /\ q.EncodingFormat = "" }

StoreGCCmds ==
    { cmd \in GCCmds : cmd.Before = 0 /\ cmd.StartID = 0 /\ cmd.EndID = MaxID
                        /\ cmd.Batch = MaxBatch }

NextStore ==
    \/ \E w \in Workers, q \in StoreRequests : Receive(w, q)
    \/ \E w \in Workers : GetEmbeddingQuery(w)
    \/ \E w \in Workers : GetEmbeddingTouch(w)
    \/ \E w \in Workers : CreateEmbedding(w)
    \/ \E w \in Workers : StoreEmbedding(w)
    \/ \E cmd \in StoreGCCmds : runGarbageCollection(cmd)
    \/ DeleteEntriesBeforeWithSleep
    \/ DeleteBatch
    \/ Tick

SpecStore == Init /\ [][NextStore]_vars

\* The gc command with every combination of its flags, on a store that one
\* worker fills and reads.
NextGC ==
    \/ \E q \in StoreRequests : Receive("w1", q)
    \/ GetEmbeddingQuery("w1")
    \/ GetEmbeddingTouch("w1")
    \/ CreateEmbedding("w1")
    \/ StoreEmbedding("w1")
    \/ \E cmd \in GCCmds : runGarbageCollection(cmd)
    \/ DeleteEntriesBeforeWithSleep
    \/ DeleteBatch
    \/ Tick

SpecGC == Init /\ [][NextGC]_vars

\* The server on a store whose statements can fail: two workers serve the
\* text requests.
NextFault ==
    \/ \E w \in Workers, q \in StoreRequests : Receive(w, q)
    \/ \E w \in Workers : GetEmbeddingQuery(w)
    \/ \E w \in Workers : GetEmbeddingFails(w)
    \/ \E w \in Workers : GetEmbeddingTouch(w)
    \/ \E w \in Workers : GetEmbeddingTouchFails(w)
    \/ \E w \in Workers : CreateEmbedding(w)
    \/ \E w \in Workers : StoreEmbedding(w)
    \/ \E w \in Workers : StoreEmbeddingFails(w)
    \/ Tick

SpecFault == Init /\ [][NextFault]_vars

\* A server that allows the models of KeyModels: two workers serve requests
\* for one text under every model and with and without dimensions.
NextKeys ==
    \/ \E w \in Workers, q \in KeyRequests : Receive(w, q)
    \/ \E w \in Workers : GetEmbeddingQuery(w)
    \/ \E w \in Workers : GetEmbeddingTouch(w)
    \/ \E w \in Workers : CreateEmbedding(w)
    \/ \E w \in Workers : StoreEmbedding(w)
    \/ Tick

SpecKeys == Init /\ [][NextKeys]_vars

\* The gc command run twice with the same flags on a store that one worker
\* fills and reads.
NextReplay ==
    \/ \E q \in StoreRequests : Receive("w1", q)
    \/ GetEmbeddingQuery("w1")
    \/ GetEmbeddingTouch("w1")
    \/ CreateEmbedding("w1")
    \/ StoreEmbedding("w1")
    \/ \E cmd \in GCCmds : runGarbageCollection(cmd)
    \/ rerunGarbageCollection
    \/ DeleteEntriesBeforeWithSleep
    \/ DeleteBatch
    \/ Tick

SpecReplay == Init /\ [][NextReplay]_vars

\* The server from the arrival of a request to its completion log: one worker
\* serves every request of RawRequests.
NextValidate ==
    \/ \E raw \in RawRequests : ServeHTTP("w1", raw)
    \/ GetEmbeddingQuery("w1")
    \/ GetEmbeddingTouch("w1")
    \/ CreateEmbedding("w1")
    \/ StoreEmbedding("w1")
    \/ Complete("w1")
    \/ Tick

SpecValidate == Init /\ [][NextValidate]_vars

\* One text sent as a string and as an array of one string: two workers serve
\* the two requests.
ShapeRequests ==
    [Input : {[type |-> "string", value |-> StrA], [type |-> "[]string", value |-> <<StrA>>]},
     Model : allowedModels, EncodingFormat : {""}, Dimensions : {<<>>}]

NextShape ==
    \/ \E w \in Workers, q \in ShapeRequests : Receive(w, q)
    \/ \E w \in Workers : GetEmbeddingQuery(w)
    \/ \E w \in Workers : GetEmbeddingTouch(w)
    \/ \E w \in Workers : CreateEmbedding(w)
    \/ \E w \in Workers : StoreEmbedding(w)
    \/ Tick

SpecShape == Init /\ [][NextShape]_vars

\* The server before an upstream that may ignore the dimensions of a
\* sub-request: two workers serve one text with and without dimensions.
NextDimension ==
    \/ \E w \in Workers, q \in DimensionRequests : Receive(w, q)
    \/ \E w \in Workers : GetEmbeddingQuery(w)
    \/ \E w \in Workers : GetEmbeddingTouch(w)
    \/ \E w \in Workers : CreateEmbedding(w)
    \/ \E w \in Workers : CreateEmbeddingIgnoringDimensions(w)
    \/ \E w \in Workers : StoreEmbedding(w)
    \/ Tick

SpecDimension == Init /\ [][NextDimension]_vars

\* The server before an upstream whose replies may have too few or too many
\* items or another order: two workers serve the text requests.
NextUpstream ==
    \/ \E w \in Workers, q \in StoreRequests : Receive(w, q)
    \/ \E w \in Workers : GetEmbeddingQuery(w)
    \/ \E w \in Workers : GetEmbeddingTouch(w)
    \/ \E w \in Workers : CreateEmbedding(w)
    \/ \E w \in Workers : CreateEmbeddingUnexpected(w)
    \/ \E w \in Workers : StoreEmbedding(w)
    \/ Tick

SpecUpstream == Init /\ [][NextUpstream]_vars

\* The gc command with every batch size it accepts, on a store that one
\* worker fills and reads; a batch may fail.
NextBatch ==
    \/ \E q \in StoreRequests : Receive("w1", q)
    \/ GetEmbeddingQuery("w1")
    \/ GetEmbeddingTouch("w1")
    \/ CreateEmbedding("w1")
    \/ StoreEmbedding("w1")
    \/ \E cmd \in AcceptedGCCmds : runGarbageCollection(cmd)
    \/ DeleteEntriesBeforeWithSleep
    \/ DeleteBatch
    \/ DeleteBatchFails
    \/ Tick

SpecBatch == Init /\ [][NextBatch]_vars

\* One text twice in one request, and the text alone: two workers serve the
\* two requests.
DuplicateInput == [type |-> "[]string", value |-> <<StrA, StrA>>]
DuplicateRequests ==
    [Input : {DuplicateInput, [type |-> "string", value |-> StrA]},
     Model : allowedModels, EncodingFormat : {""}, Dimensions : {<<>>}]

NextDuplicate ==
    \/ \E w \in Workers, q \in DuplicateRequests : Receive(w, q)
    \/ \E w \in Workers : GetEmbeddingQuery(w)
    \/ \E w \in Workers : GetEmbeddingTouch(w)
    \/ \E w \in Workers : CreateEmbedding(w)
    \/ \E w \in Workers : StoreEmbedding(w)
    \/ Tick

SpecDuplicate == Init /\ [][NextDuplicate]_vars

\* Texts and token sequences on one store: two workers serve the requests of
\* CollisionRequests.
NextCollision ==
    \/ \E w \in Workers, q \in CollisionRequests : Receive(w, q)
    \/ \E w \in Workers : GetEmbeddingQuery(w)
    \/ \E w \in Workers : GetEmbeddingTouch(w)
    \/ \E w \in Workers : CreateEmbedding(w)
    \/ \E w \in Workers : StoreEmbedding(w)
    \/ Tick

SpecCollision == Init /\ [][NextCollision]_vars

(***************************************************************************)
(* Properties.                                                             *)
(***************************************************************************)
\* The hash a logical input is stored under.
TargetHash(target) ==
    IF target.kind = "string" THEN Sha1Hex(target.value) ELSE numArrSha1(target.value)

\* vec is the vector of the input and model that key stands for.
BelongsTo(vec, key) ==
    TargetHash(vec.input) = key[1] /\ vec.model = key[2] /\ vec.dimension = key[3]

\* The key of the lookup a handler in the lookup loop is at.
LookupKey(h) == Key(h.hashes[h.i], h.req.Model, RequestDimension(h.req))

\* The keys a handler in the persist loop has stored (m < j) or is about to
\* store (m = j) with the reply it holds.
PersistKeys(h) ==
    { Key(h.hashes[h.missedIndexes[m] + 1], h.req.Model, RequestDimension(h.req)) :
        m \in 1..h.j }
PersistKey(h) ==
    Key(h.hashes[h.missedIndexes[h.j] + 1], h.req.Model, RequestDimension(h.req))

\* The logical inputs a handler missed, and those its upstream call carried.
MissedTargets(h) ==
    [k \in 1..Len(h.missedIndexes) |-> Target(h.req.Input, h.missedIndexes[k] + 1)]
SentTargets(h) ==
    [k \in 1..InputLength(h.upstreamInput[1]) |-> Target(h.upstreamInput[1], k)]

\* C1: a request with n logical inputs that is answered 200 has n entries in
\* data, and entry i (from 0) has index i and the vector of the i-th input,
\* whichever inputs were hits and whichever were misses.
C1_ResponseInInputOrder ==
    \A w \in Workers :
        LET h == handler[w]
            n == InputLength(h.req.Input)
        IN  (h.pc = "done" /\ h.status = StatusOK) =>
                /\ Len(h.response.Data) = n
                /\ \A i \in 1..n :
                      /\ h.response.Data[i].Index = i - 1
                      /\ h.response.Data[i].Embedding # NilEmbedding
                      /\ h.response.Data[i].Embedding.vec.input = Target(h.req.Input, i)
                      /\ h.response.Data[i].Embedding.vec.model = h.req.Model

\* C2: a request with at least one miss makes exactly one upstream call, whose
\* input is the missed logical inputs in request order and nothing else: the
\* missed indexes are those of the lookups that found no row, in ascending
\* order, and the call carries the inputs at exactly those indexes.
C2_OneCallForTheMisses ==
    \A w \in Workers :
        LET h == handler[w]
        IN  /\ h.upstreamCalls <= 1
            /\ h.pc = "upstream" =>
                  /\ h.upstreamCalls = 0
                  /\ \A k \in 1..Len(h.hashes) :
                        (h.responseEmbeddingDatas[k] = ZeroEmbeddingData)
                            <=> (\E m \in 1..Len(h.missedIndexes) : h.missedIndexes[m] = k - 1)
            /\ (h.pc \in {"upstream", "persist", "done"}) =>
                  \A m \in 1..(Len(h.missedIndexes) - 1) :
                      h.missedIndexes[m] < h.missedIndexes[m + 1]
            /\ (h.pc \in {"persist", "done"} /\ Len(h.missedIndexes) > 0) =>
                  /\ h.upstreamCalls = 1
                  /\ SentTargets(h) = MissedTargets(h)

\* C2's case: of two inputs the first hit and the second missed, and the
\* upstream has been called.
C2_Witness ==
    \E w \in Workers :
        /\ handler[w].pc = "persist"
        /\ Len(handler[w].hashes) = 2
        /\ handler[w].missedIndexes = <<1>>
        /\ handler[w].upstreamCalls = 1

\* C3: a request whose every logical input is in the cache makes no upstream
\* call and is answered 200 with usage {prompt_tokens: 0, total_tokens: 0}.
C3_AllHitsCostNothing ==
    \A w \in Workers :
        LET h == handler[w]
        IN  (h.pc = "done" /\ h.missedIndexes = <<>>) =>
                /\ h.upstreamCalls = 0
                /\ h.status = StatusOK
                /\ h.response.Usage = [PromptTokens |-> 0, TotalTokens |-> 0]

\* C3's case: a request with two inputs, both of them hits, has been answered.
C3_Witness ==
    \E w \in Workers :
        /\ handler[w].pc = "done"
        /\ handler[w].missedIndexes = <<>>
        /\ Len(handler[w].hashes) = 2
        /\ Len(handler[w].response.Data) = 2

\* C4: after any interleaving of StoreEmbedding, GetEmbedding and gc batches
\* the table holds at most one row for each (input_hash, model, dimension).
C4_UniqueKey ==
    \A r1 \in rows, r2 \in rows : RowKey(r1) = RowKey(r2) => r1 = r2

\* C4's case: two workers have each stored the same key, a gc run has ended,
\* and the key has its row.
C4_Witness ==
    /\ gc.pc = "done"
    /\ \E w \in Workers, u \in Workers :
          /\ w # u
          /\ handler[w].pc = "done" /\ handler[u].pc = "done"
          /\ handler[w].status = StatusOK /\ handler[u].status = StatusOK
          /\ handler[w].upstreamCalls = 1 /\ handler[u].upstreamCalls = 1
          /\ handler[w].hashes = handler[u].hashes
          /\ \E r \in rows : r.input_hash = handler[w].hashes[1]

\* C5: in every reachable state of the table every row has
\* created_at <= last_accessed_at.
C5_CreatedBeforeAccessed ==
    \A r \in rows : r.created_at <= r.last_accessed_at

\* C6: a gc run with --before D over the ids [a, b) and a positive batch
\* size, during which no request wrote to the table, ends with exactly the
\* rows removed that had a <= id < b and last_accessed_at < now - D, and with
\* every other row as it was.
C6_DeleteRangeExact ==
    (gc.pc = "done" /\ gcBase.clean) =>
        rows = { r \in gcBase.rows :
                    ~ (/\ gc.cmd.StartID <= r.id
                       /\ r.id < gc.endID
                       /\ r.last_accessed_at < gcBase.now - gc.cmd.Before) }

\* C6's case: an undisturbed gc run of more than one batch has removed a row
\* and left a row that is as old but outside the id range.
C6_Witness ==
    /\ gc.pc = "done"
    /\ gcBase.clean
    /\ gc.cmd.Batch < gc.endID - gc.cmd.StartID
    /\ rows # gcBase.rows
    /\ \E r \in rows : r.last_accessed_at < gcBase.now - gc.cmd.Before

\* C7: when --end-id is not given the gc run on a table with rows uses
\* MaxId() + 1 as its exclusive upper bound, so that the row with the
\* greatest id is in range.
C7_EndIdIsMaxIdPlusOne ==
    (gc.pc # "idle" /\ gc.cmd.EndID = 0 /\ gc.maxID > 0) => gc.endID = gc.maxID + 1

\* C8: once a StoreEmbedding of a key has succeeded, by inserting the row or
\* by replacing its content, the next GetEmbedding of the key with no
\* StoreEmbedding or delete of the key in between returns the stored content.
C8_GetReturnsLastPut ==
    [][ \A w \in Workers :
            (/\ handler[w].pc = "lookup"
             /\ handler'[w] # handler[w]
             /\ lastPut[LookupKey(handler[w])] # NoRow)
            => (/\ handler'[w].pc = "bump"
                /\ handler'[w].cache = lastPut[LookupKey(handler[w])]) ]_vars

\* C8's case: a GetEmbedding has returned the content of the last
\* StoreEmbedding of a key that another worker had stored with other content
\* before.
C8_Witness ==
    \E w \in Workers, u \in Workers :
        /\ w # u
        /\ handler[w].pc = "bump"
        /\ handler[w].cache = lastPut[LookupKey(handler[w])]
        /\ handler[u].pc = "done"
        /\ handler[u].status = StatusOK
        /\ handler[u].upstreamCalls = 1
        /\ handler[u].req.Input.type = "string"
        /\ handler[u].hashes[1] = handler[w].hashes[handler[w].i]
        /\ handler[u].response.Data[1].Embedding.vec # handler[w].cache

\* C9: two requests with the same inputs, served concurrently on a cold
\* cache, whose upstream calls are both answered, both end with status 200,
\* and the table then holds exactly one row for each of their keys.
C9_ConcurrentMissesConverge ==
    \A w \in Workers, u \in Workers :
        (/\ w # u
         /\ handler[w].pc = "done" /\ handler[u].pc = "done"
         /\ handler[w].req = handler[u].req
         /\ Len(handler[w].missedIndexes) = Len(handler[w].hashes)
         /\ Len(handler[u].missedIndexes) = Len(handler[u].hashes)
         /\ handler[w].upstreamStatus = StatusOK
         /\ handler[u].upstreamStatus = StatusOK)
        => /\ handler[w].status = StatusOK
           /\ handler[u].status = StatusOK
           /\ \A k \in 1..Len(handler[w].hashes) :
                 Cardinality({ r \in rows :
                     RowKey(r) = Key(handler[w].hashes[k], handler[w].req.Model,
                                     DefaultDimension) }) = 1

\* C10: a GetEmbedding that reads a key while another worker's persist loop
\* is about to store that key, or has just stored it, returns the state of
\* the key before that statement or after it: no row, or the content last
\* stored under the key, which is a vector of the key's own input and model;
\* and the lookup goes on without an error.
C10_GetBesidePut ==
    [][ \A w \in Workers, u \in Workers :
            (/\ w # u
             /\ handler[w].pc = "lookup"
             /\ handler'[w] # handler[w]
             /\ handler[u].pc = "persist"
             /\ LookupKey(handler[w]) \in PersistKeys(handler[u]))
            => /\ handler'[w].pc # "done"
               /\ \/ /\ handler'[w].pc = "bump"
                     /\ handler'[w].cache = lastPut[LookupKey(handler[w])]
                     /\ BelongsTo(handler'[w].cache, LookupKey(handler[w]))
                  \/ /\ handler'[w].pc # "bump"
                     /\ lastPut[LookupKey(handler[w])] = NoRow
                     /\ handler'[w].missedIndexes
                            = Append(handler[w].missedIndexes, handler[w].i - 1) ]_vars

\* C10's case: a GetEmbedding has returned the row of a key while another
\* worker is about to store other content under the same key.
C10_Witness ==
    \E w \in Workers, u \in Workers :
        /\ w # u
        /\ handler[w].pc = "bump"
        /\ handler[u].pc = "persist"
        /\ PersistKey(handler[u]) = LookupKey(handler[w])
        /\ handler[w].cache = lastPut[LookupKey(handler[w])]
        /\ handler[u].missedResp.Data[handler[u].j].Embedding.vec # handler[w].cache

\* The uniqueness of the key and the allocation of ids, as one predicate on
\* a table.
StoreInvariant(table) ==
    /\ \A r1 \in table, r2 \in table : RowKey(r1) = RowKey(r2) => r1 = r2
    /\ \A r1 \in table, r2 \in table : r1.id = r2.id => r1 = r2
    /\ \A r \in table : r.id < nextID /\ r.embedding_data # NoRow

\* C11: when the UPDATE of last_accessed_at of a GetEmbedding runs after a gc
\* batch has deleted the row the SELECT read, the table is left as the
\* delete left it (the row is not re-created), the lookup still files the
\* content it read as a hit and goes on without an error, and the table
\* keeps its unique keys and ids.
C11_BumpLosesToDelete ==
    [][ \A w \in Workers :
            (/\ handler[w].pc = "bump"
             /\ handler'[w] # handler[w]
             /\ sqlGetEmbedding(LookupKey(handler[w])[1], LookupKey(handler[w])[2],
                                 LookupKey(handler[w])[3]) = {})
            => /\ rows' = rows
               /\ StoreInvariant(rows')
               /\ handler'[w].status \in {0, StatusOK}
               /\ handler'[w].responseEmbeddingDatas[handler[w].i]
                     = [Object |-> "embedding", Embedding |-> Floats(handler[w].cache),
                        Index |-> handler[w].i - 1]
               /\ handler'[w].missedIndexes = handler[w].missedIndexes ]_vars

\* C11's case: a gc batch deleted a row between the SELECT and the UPDATE of
\* a GetEmbedding, the UPDATE has run, and the request was answered.
C11_Witness ==
    \E w \in Workers :
        /\ "bumpLost" \in handler[w].events
        /\ handler[w].pc = "done"
        /\ gc.pc \in {"batch", "done"}
        /\ \A k \in 1..Len(handler[w].hashes) :
              sqlGetEmbedding(handler[w].hashes[k], handler[w].req.Model,
                              RequestDimension(handler[w].req)) = {}

\* C19: a step that is not a DELETE of the gc command (a lookup, a bump, an
\* upstream call that succeeds or fails, a StoreEmbedding, the start of a gc
\* run) keeps every row of the table, with its id and its key, and does not
\* lower the number of rows.
C19_OnlyGCDeletes ==
    [][ gc.pc # "batch" \/ gc' = gc
            => /\ \A r \in rows : \E r2 \in rows' : r2.id = r.id /\ RowKey(r2) = RowKey(r)
               /\ Cardinality(rows') >= Cardinality(rows) ]_vars

\* C19's case: every request of the run was received, one missed and stored
\* its rows, another ended with an upstream error, and the rows stored are
\* all there while no gc run has started.
C19_Witness ==
    /\ gc.pc = "idle"
    /\ received = MaxRequests
    /\ \E w \in Workers, u \in Workers :
          /\ w # u
          /\ handler[w].pc = "done" /\ handler[w].status = StatusOK
          /\ handler[w].upstreamCalls = 1
          /\ handler[u].pc = "done" /\ handler[u].status = StatusBadGateway
          /\ Cardinality(rows) = Len(handler[w].hashes)
          /\ nextID = Cardinality(rows) + 1

\* The JSON value json.Marshal writes for an input, by its Go type.
JSONShape(input) ==
    CASE input.type = "string" -> "string"
      [] input.type = "[]string" -> "array of strings"
      [] input.type = "[]float64" -> "array of numbers"
      [] input.type = "[][]float64" -> "array of arrays of numbers"

\* C18: the input of the upstream sub-request has the JSON shape of the
\* client's input: a string goes out as that string, a token sequence as that
\* array of numbers, an array of strings as an array of strings of the
\* request, an array of token sequences as an array of sequences of the
\* request.
C18_SubRequestKeepsShape ==
    \A w \in Workers :
        LET h == handler[w]
            sent == h.upstreamInput[1]
        IN  h.upstreamCalls = 1 =>
                /\ JSONShape(sent) = JSONShape(h.req.Input)
                /\ h.req.Input.type \in {"string", "[]float64"} => sent.value = h.req.Input.value
                /\ h.req.Input.type \in {"[]string", "[][]float64"} =>
                      \A k \in 1..Len(sent.value) :
                          \E n \in 1..Len(h.req.Input.value) : sent.value[k] = h.req.Input.value[n]

\* C18's case: a request with an array of token sequences had a hit and a
\* miss, and its sub-request went to the upstream with fewer sequences than
\* the request has.
C18_Witness ==
    \E w \in Workers :
        /\ handler[w].upstreamCalls = 1
        /\ handler[w].req.Input.type = "[][]float64"
        /\ Len(handler[w].upstreamInput[1].value) < Len(handler[w].req.Input.value)

\* C12: when GetEmbedding has read a row and its UPDATE of last_accessed_at
\* fails, the request goes on as after a hit: the content read is filed at
\* the input's position, the input is not counted as a miss, the request does
\* not end with an error, and the table is as it was.
C12_BumpFailureKeepsHit ==
    [][ \A w \in Workers :
            (/\ handler[w].pc = "bump"
             /\ "bumpFailed" \notin handler[w].events
             /\ "bumpFailed" \in handler'[w].events)
            => /\ handler'[w].responseEmbeddingDatas[handler[w].i]
                     = [Object |-> "embedding", Embedding |-> Floats(handler[w].cache),
                        Index |-> handler[w].i - 1]
               /\ handler'[w].missedIndexes = handler[w].missedIndexes
               /\ handler'[w].pc = "done" => handler'[w].status = StatusOK
               /\ handler'[w].errorType = ""
               /\ rows' = rows ]_vars

\* C12's case: a request whose inputs were all in the cache lost a bump to a
\* failure of the UPDATE and was answered 200 from the cache alone.
C12_Witness ==
    \E w \in Workers :
        /\ handler[w].events = {"bumpFailed"}
        /\ handler[w].pc = "done"
        /\ handler[w].status = StatusOK
        /\ handler[w].upstreamCalls = 0
        /\ Len(handler[w].hashes) = 2

\* C13: a request that lost a StoreEmbedding to a store error after its
\* upstream call succeeded is answered 200, with one entry per input, entry i
\* carrying the vector of the i-th input for the request's model, and with
\* the usage the upstream reported.
C13_PutFailureStillAnswers ==
    \A w \in Workers :
        LET h == handler[w]
            n == InputLength(h.req.Input)
        IN  "putFailed" \in h.events =>
                /\ h.upstreamStatus = StatusOK
                /\ h.pc \in {"persist", "done"}
                /\ h.pc = "done" =>
                      /\ h.status = StatusOK
                      /\ h.errorType = ""
                      /\ Len(h.response.Data) = n
                      /\ \A i \in 1..n :
                            /\ h.response.Data[i].Embedding # NilEmbedding
                            /\ h.response.Data[i].Embedding.vec.input = Target(h.req.Input, i)
                            /\ h.response.Data[i].Embedding.vec.model = h.req.Model
                      /\ h.response.Usage = UpstreamReply(
                              [h.req EXCEPT !.Input = h.upstreamInput[1]], 1).Usage

\* C13's case: a request for two inputs had a hit and a miss, the
\* StoreEmbedding of the miss failed, the table holds no row for it, and the
\* request was answered.
C13_Witness ==
    \E w \in Workers :
        /\ handler[w].events = {"putFailed"}
        /\ handler[w].pc = "done"
        /\ Len(handler[w].hashes) = 2
        /\ handler[w].missedIndexes = <<1>>
        /\ sqlGetEmbedding(handler[w].hashes[2], handler[w].req.Model,
                            RequestDimension(handler[w].req)) = {}

\* C14: a request one of whose GetEmbedding calls failed with a store error
\* ends at once with status 500 and error type internal_error, without data
\* and without a call of the upstream.
C14_GetFailureIs500 ==
    \A w \in Workers :
        LET h == handler[w]
        IN  "getFailed" \in h.events =>
                /\ h.pc = "done"
                /\ h.status = StatusInternalServerError
                /\ h.errorType = "internal_error"
                /\ h.response.Data = <<>>
                /\ h.upstreamCalls = 0

\* C14's case: the lookup of the second input of a request failed after the
\* first input was found in the cache.
C14_Witness ==
    \E w \in Workers :
        /\ "getFailed" \in handler[w].events
        /\ handler[w].pc = "done"
        /\ Len(handler[w].hashes) = 2
        /\ handler[w].responseEmbeddingDatas[1].Embedding # NilEmbedding
        /\ handler[w].missedIndexes = <<>>

\* C15: a request whose upstream call failed is answered with the status the
\* upstream answered with when the upstream answered with an HTTP error, and
\* with 502 when the upstream did not answer.
C15_UpstreamStatusPropagated ==
    \A w \in Workers :
        LET h == handler[w]
        IN  (h.pc = "done" /\ h.upstreamCalls = 1 /\ h.upstreamStatus # StatusOK) =>
                /\ h.errorType = "upstream_error"
                /\ h.status = IF h.upstreamStatus = 0 THEN StatusBadGateway
                                                      ELSE h.upstreamStatus

C17_RepeatCostsNothing ==
    \A w \in Workers :
        LET h == handler[w]
        IN  h.repeat =>
                /\ h.missedIndexes = <<>>
                /\ h.upstreamCalls = 0
                /\ h.pc \in {"lookup", "bump", "done"}
                /\ h.pc = "done" =>
                      /\ h.response.Usage.PromptTokens = 0
                      /\ "getFailed" \notin h.events => h.status = StatusOK

\* C17's case: a request for two inputs that was answered 200 after a miss
\* was sent again and answered 200 from the cache.
C17_Witness ==
    \E w \in Workers, u \in Workers :
        /\ w # u
        /\ handler[u].pc = "done" /\ handler[u].status = StatusOK
        /\ handler[u].upstreamCalls = 1
        /\ handler[w].repeat
        /\ handler[w].req = handler[u].req
        /\ handler[w].pc = "done" /\ handler[w].status = StatusOK
        /\ Len(handler[w].hashes) = 2

\* C20: the UPDATE of a lookup that found a row wrote the time of the lookup
\* into the row's last_accessed_at, so on a store whose rows are never
\* deleted the last_accessed_at of a row is at least the time of every
\* lookup that was served from it.
C20_AccessedAtLeastLastServed ==
    \A w \in Workers : \A b \in handler[w].bumps : \A r \in rows :
        RowKey(r) = Key(b.hash, handler[w].req.Model, RequestDimension(handler[w].req))
            => r.last_accessed_at >= b.now

\* C21: a DELETE of a second gc run that has the threshold of the first run
\* and an id range inside the range the first run processed, on a table no
\* request has written to since the first run began, deletes nothing: the
\* table is left as it was.
C21_ReplayDeletesNothing ==
    [][ (/\ gc.pc = "batch"
         /\ gc' # gc
         /\ gc.replayed
         /\ gcBase.clean
         /\ gc.thresholdTime = gc.prevThreshold
         /\ gc.endID <= gc.prevEndID)
        => rows' = rows ]_vars

\* C21's case: the first run deleted a row and left another, and the second
\* run with the same threshold has gone through the range in more than one
\* batch.
C21_Witness ==
    /\ gc.pc = "done"
    /\ gc.replayed
    /\ gcBase.clean
    /\ gc.thresholdTime = gc.prevThreshold
    /\ gc.endID <= gc.prevEndID
    /\ gc.cmd.Batch < gc.endID - gc.cmd.StartID
    /\ rows # {}
    /\ rows # gcBase.rows

\* A worker whose request has been answered.
Answered(h) == h.pc \in {"done", "completed"} /\ h.raw # NoRaw

\* C22: the method is examined before the path: every request whose body was
\* read and whose method is not POST is answered 405, and a POST request to a
\* path other than /v1/embeddings is answered 404.
C22_MethodBeforePath ==
    \A w \in Workers :
        LET h == handler[w]
        IN  (Answered(h) /\ h.raw.Body.read) =>
               /\ h.raw.Method # "POST" => h.status = StatusMethodNotAllowed
               /\ (h.raw.Method = "POST" /\ h.raw.Path # "/v1/embeddings")
                     => h.status = StatusNotFound

\* The Authorization header starts with "Bearer ".
HasBearerPrefix(authHeader) == Len(authHeader) >= 2 /\ authHeader[1] = "Bearer"

\* C23: a POST to /v1/embeddings whose Authorization header does not start
\* with "Bearer ", or whose token does not match the configured pattern when
\* one is configured, is answered 401 invalid_request_error.
C23_BadKeyIs401 ==
    \A w \in Workers :
        LET h == handler[w]
        IN  (/\ Answered(h) /\ h.raw.Body.read
             /\ h.raw.Method = "POST" /\ h.raw.Path = "/v1/embeddings"
             /\ \/ ~ HasBearerPrefix(h.raw.Authorization)
                \/ /\ h.apiKeyPattern # ""
                   /\ ~ MatchString(h.apiKeyPattern, Tail(h.raw.Authorization)))
            => /\ h.status = StatusUnauthorized
               /\ h.errorType = "invalid_request_error"
               /\ h.upstreamCalls = 0

\* A request whose well-formed key does not match the configured pattern has
\* been answered 401.
C23_Witness ==
    \E w \in Workers :
        /\ Answered(handler[w])
        /\ handler[w].raw.Method = "POST" /\ handler[w].raw.Path = "/v1/embeddings"
        /\ handler[w].raw.Authorization = <<"Bearer", "xx">>
        /\ handler[w].apiKeyPattern # ""
        /\ handler[w].status = StatusUnauthorized

\* The dimensions of a body are present and not an integer strictly between
\* 1 and 10000.
BadDimensions(d) == IsNum(d) /\ ~ (d.den = 1 /\ d.num > 1 /\ d.num < 10000)

\* C24: a request that passed Receive, Authenticate and Parse and whose model
\* is not allowed, or whose encoding_format is present and neither float nor
\* base64, or whose dimensions is present and not an integer strictly between
\* 1 and 10000, is answered 400.
C24_InvalidFieldIs400 ==
    \A w \in Workers :
        LET h == handler[w]
        IN  (/\ Answered(h) /\ h.raw.Body.json
             /\ validateRequest(h.raw, h.apiKeyPattern) = 0
             /\ \/ h.raw.Body.model \notin allowedModels
                \/ h.raw.Body.encoding_format \notin {"", "float", "base64"}
                \/ BadDimensions(h.raw.Body.dimensions))
            => h.status = StatusBadRequest

\* A decoded input is one of the four accepted shapes: a non-empty string, a
\* non-empty array of non-empty strings, a non-empty array of integers, or a
\* non-empty array of arrays of integers.
IsInteger(j) == IsNum(j) /\ j.den = 1
AcceptedShape(j) ==
    \/ IsStr(j) /\ j.str # <<>>
    \/ /\ IsArr(j) /\ j.arr # <<>>
       /\ \/ \A k \in 1..Len(j.arr) : IsStr(j.arr[k]) /\ j.arr[k].str # <<>>
          \/ \A k \in 1..Len(j.arr) : IsInteger(j.arr[k])
          \/ \A k \in 1..Len(j.arr) :
                /\ IsArr(j.arr[k])
                /\ \A l \in 1..Len(j.arr[k].arr) : IsInteger(j.arr[k].arr[l])

\* C25: a request that passed Receive, Authenticate and Parse and whose input
\* is not one of the four accepted shapes (an empty array, mixed element types,
\* nested strings, a non-integer number in a token position) is answered 400.
C25_InvalidInputIs400 ==
    \A w \in Workers :
        LET h == handler[w]
        IN  (/\ h.raw # NoRaw /\ h.raw.Body.json
             /\ validateRequest(h.raw, h.apiKeyPattern) = 0
             /\ ~ AcceptedShape(h.raw.Body.input))
            => h.pc \in {"done", "completed"} /\ h.status = StatusBadRequest

\* The shape of a response body: the length of its data list and, per item,
\* the object, the index and the encoding of the embedding.
ResponseShape(response) ==
    [length |-> Len(response.Data),
     items |-> [k \in 1..Len(response.Data) |->
                  [Object |-> response.Data[k].Object, Index |-> response.Data[k].Index,
                   enc |-> response.Data[k].Embedding.enc]]]

\* The worker has answered 200 to a request with the given input.
Served(h, input) == h.pc = "done" /\ h.status = StatusOK /\ h.req.Input = input

\* C26 as stated: the responses to "a" and to ["a"] have distinct shapes.
C26_DistinctShapes ==
    \A w, u \in Workers :
        (/\ Served(handler[w], [type |-> "string", value |-> StrA])
         /\ Served(handler[u], [type |-> "[]string", value |-> <<StrA>>]))
        => ResponseShape(handler[w].response) # ResponseShape(handler[u].response)

\* C26, amended: the responses to "a" and to ["a"] have the same shape, a data
\* list of exactly one embedding object with index 0; the two requests differ
\* in the sub-request sent upstream on a miss, a string and an array of one.
C26_SameShape ==
    \A w, u \in Workers :
        (/\ Served(handler[w], [type |-> "string", value |-> StrA])
         /\ Served(handler[u], [type |-> "[]string", value |-> <<StrA>>]))
        => /\ ResponseShape(handler[w].response) = ResponseShape(handler[u].response)
           /\ ResponseShape(handler[w].response) =
                 [length |-> 1,
                  items |-> << [Object |-> "embedding", Index |-> 0, enc |-> "float"] >>]
           /\ handler[w].upstreamCalls = 1 => handler[w].upstreamInput[1].type = "string"
           /\ handler[u].upstreamCalls = 1 => handler[u].upstreamInput[1].type = "[]string"

\* Both requests have been answered 200, the string by the upstream and the
\* array from the cache.
C26_Witness ==
    \E w, u \in Workers :
        /\ Served(handler[w], [type |-> "string", value |-> StrA])
        /\ Served(handler[u], [type |-> "[]string", value |-> <<StrA>>])
        /\ handler[w].upstreamCalls = 1
        /\ handler[u].upstreamCalls = 0

\* C27: every call of the upstream carries encoding_format "base64", whatever
\* encoding_format the client asked for.
C27_UpstreamAlwaysBase64 ==
    \A w \in Workers :
        handler[w].upstreamCalls > 0 => handler[w].upstreamEncodingFormat = "base64"

\* C28: the Authorization header of every call of the upstream is the
\* Authorization header of the client's request, unchanged.
C28_AuthorizationVerbatim ==
    \A w \in Workers :
        (handler[w].raw # NoRaw /\ handler[w].upstreamCalls > 0)
        => handler[w].upstreamAuthorization = handler[w].raw.Authorization

\* The upstream has been called for a request whose key holds a space.
C28_Witness ==
    \E w \in Workers :
        /\ handler[w].raw # NoRaw
        /\ handler[w].raw.Authorization = <<"Bearer", "sk-a", "b">>
        /\ handler[w].upstreamCalls = 1
        /\ handler[w].upstreamAuthorization = <<"Bearer", "sk-a", "b">>

\* C29: every request, once ServeHTTP has returned, has emitted exactly one
\* log line, and the status of that line is the status of the response sent
\* to the client.
C29_OneLogLineWithSentStatus ==
    \A w \in Workers :
        handler[w].pc = "completed"
        => /\ Len(handler[w].log) = 1
           /\ handler[w].log[1].status = handler[w].written

\* The byte length of a row's content: four bytes per float32.
ContentBytes(r) == 4 * Float32Count(r.embedding_data)

EntryFilled(h, k) ==
    /\ h.response.Data[k].Object = "embedding"
    /\ h.response.Data[k].Embedding # NilEmbedding
    /\ h.response.Data[k].Embedding.vec.input = Target(h.req.Input, k)

\* C31: a request with misses is answered 200 only when the reply of the
\* upstream held exactly one item per miss; a reply with fewer or more items
\* gives no 200 response.
C31_OnlyCompleteFillIs200 ==
    \A w \in Workers :
        LET h == handler[w]
        IN  (h.pc = "done" /\ h.status = StatusOK /\ h.upstreamCalls > 0) =>
               Len(h.upstreamData) = Len(h.missedIndexes)

\* The reply a handler received holds one item per miss, and the index field
\* of each item names the missed input the item is the vector of.
IndexedReply(h) ==
    /\ Len(h.upstreamData) = Len(h.missedIndexes)
    /\ \A k \in 1..Len(h.upstreamData) :
          /\ h.upstreamData[k].Index < Len(h.missedIndexes)
          /\ h.upstreamData[k].Embedding.vec.input = MissedTargets(h)[h.upstreamData[k].Index + 1]

\* C32: the returned embeddings are assigned by their index field, not by
\* their position in the data array: whatever the order of the items of a
\* reply, every entry of the 200 response carries the vector of its input and
\* every row holds a vector of the input its hash stands for.
C32_AssignedByIndexField ==
    \A w \in Workers :
        LET h == handler[w]
        IN  (/\ h.pc = "done" /\ h.status = StatusOK /\ h.upstreamCalls > 0
             /\ IndexedReply(h))
            => /\ \A k \in 1..Len(h.response.Data) : EntryFilled(h, k)
               /\ \A r \in rows : TargetHash(r.embedding_data.input) = r.input_hash

\* The lookup loop of a handler has finished and nothing has been filled yet:
\* it is about to call the upstream, or it has answered from the cache alone.
LookupFinished(h) ==
    \/ h.pc = "upstream"
    \/ h.pc = "done" /\ h.status = StatusOK /\ h.upstreamCalls = 0

\* The 0-based indexes filed as hits, and those recorded as misses.
Hits(h) ==
    { k - 1 : k \in { m \in 1..Len(h.responseEmbeddingDatas) :
                        h.responseEmbeddingDatas[m] # ZeroEmbeddingData } }
Misses(h) == { h.missedIndexes[k] : k \in 1..Len(h.missedIndexes) }

\* C33: once the lookup loop has finished, each of the n indexes of the
\* logical inputs is in exactly one of hits and misses, and
\* |targets| = |hashes| = |hits| + |misses|.
C33_HitsAndMissesPartition ==
    \A w \in Workers :
        LET h == handler[w]
            n == InputLength(h.req.Input)
        IN  LookupFinished(h) =>
               /\ Len(h.hashes) = n
               /\ Len(h.responseEmbeddingDatas) = n
               /\ Hits(h) \cap Misses(h) = {}
               /\ Hits(h) \cup Misses(h) = 0..(n - 1)
               /\ Cardinality(Misses(h)) = Len(h.missedIndexes)
               /\ n = Cardinality(Hits(h)) + Len(h.missedIndexes)

\* A handler has finished the lookup of a request of two inputs with one hit
\* and one miss.
C33_Witness ==
    \E w \in Workers :
        /\ handler[w].pc = "upstream"
        /\ Cardinality(Hits(handler[w])) = 1
        /\ Cardinality(Misses(handler[w])) = 1

\* The ids of a batch <<from, to>>: from <= id < to.
BatchIds(b) == b[1]..(b[2] - 1)
Min(a, b) == IF a <= b THEN a ELSE b

\* C34: the id ranges of the batches of a gc run are [cursor, min(cursor + B,
\* endId)), the first starting at startId and each starting where the one
\* before ended; they are pairwise disjoint and at most B ids wide, and when
\* the run has ended their union is exactly [startId, endId).
C34_BatchRanges ==
    LET bs == gc.batches
        B == gc.cmd.Batch
    IN  gc.pc \in {"batch", "done", "failed"} =>
           /\ \A k \in 1..Len(bs) :
                 /\ bs[k][1] = IF k = 1 THEN gc.cmd.StartID ELSE bs[k - 1][2]
                 /\ bs[k][2] = Min(bs[k][1] + B, gc.endID)
                 /\ bs[k][2] - bs[k][1] <= B
           /\ \A k, l \in 1..Len(bs) : k # l => BatchIds(bs[k]) \cap BatchIds(bs[l]) = {}
           /\ gc.currentID = IF bs = <<>> THEN gc.cmd.StartID ELSE bs[Len(bs)][2]
           /\ gc.pc = "done" =>
                 UNION { BatchIds(bs[k]) : k \in 1..Len(bs) } = gc.cmd.StartID..(gc.endID - 1)

\* A run has ended after two batches, the second cut at endId.
C34_Witness ==
    /\ gc.pc = "done"
    /\ Len(gc.batches) = 2
    /\ gc.batches[2][2] - gc.batches[2][1] < gc.cmd.Batch
    /\ gc.batches[2][2] = gc.endID

\* C35: a batch is one DELETE statement and no transaction spans the batches:
\* a step of the gc loop either applies its batch in full (every row of the
\* batch's id range that is older than the threshold is gone, every other row
\* is kept) or, when the statement fails or the command is interrupted, leaves
\* the table as the batches before it left it.
C35_BatchAppliedOrNotStarted ==
    [][(gc.pc = "batch" /\ gc' # gc) =>
          \/ /\ gc'.pc = "failed"
             /\ gc'.batches = gc.batches
             /\ rows' = rows
          \/ /\ gc'.pc \in {"batch", "done"}
             /\ Len(gc'.batches) = Len(gc.batches) + 1
             /\ LET b == gc'.batches[Len(gc'.batches)]
                IN  /\ \A r \in rows :
                          r \in rows' <=> ~ (r.id \in BatchIds(b) /\ r.last_accessed_at < gc.thresholdTime)
                    /\ rows' \subseteq rows]_vars

\* The command failed before it reached endId, after two batches that each
\* deleted a row, and both rows are still gone.
C35_Witness ==
    /\ gc.pc = "failed"
    /\ Len(gc.batches) >= 2
    /\ gc.currentID < gc.endID
    /\ \E r1, r2 \in gcBase.rows :
          /\ r1.id \in BatchIds(gc.batches[Len(gc.batches) - 1])
          /\ r2.id \in BatchIds(gc.batches[Len(gc.batches)])
          /\ \A r \in rows : r.id \notin {r1.id, r2.id}

\* C36: the threshold is computed once, as the time of the call less the
\* --before duration, and no batch changes it; a row that a batch deletes had
\* a last_accessed_at before that threshold when the DELETE ran, whatever the
\* server did to the row before.
C36_ThresholdFixedAndRespected ==
    [][/\ (gc.pc = "delete" /\ gc' # gc) => gc'.thresholdTime = clock - gc.cmd.Before
       /\ (gc.pc = "batch" /\ gc' # gc) =>
             /\ gc'.thresholdTime = gc.thresholdTime
             /\ \A r \in rows : r \notin rows' => r.last_accessed_at < gc.thresholdTime]_vars

\* A batch has run over the id of a row that was created before the
\* threshold and that a request's UPDATE moved to the threshold or later:
\* the row is still there.
C36_Witness ==
    /\ gc.pc \in {"batch", "done"}
    /\ gc.batches # <<>>
    /\ \E r \in rows, w \in Workers :
          /\ \E k \in 1..Len(gc.batches) : r.id \in BatchIds(gc.batches[k])
          /\ r.created_at < gc.thresholdTime
          /\ r.last_accessed_at >= gc.thresholdTime
          /\ [hash |-> r.input_hash, now |-> r.last_accessed_at] \in handler[w].bumps

\* C37: for every --start-id, --end-id and --batch the gc command accepts, the
\* loop ends after finitely many batches and every iteration moves the
\* cursor forward.
C37_CursorStrictlyIncreases ==
    [][(gc.pc = "batch" /\ gc'.pc \in {"batch", "done"} /\ gc' # gc) =>
          gc'.currentID > gc.currentID]_vars

\* The loop has run a batch of a command whose --batch is not positive.
C37_Witness ==
    /\ gc.pc = "batch"
    /\ gc.cmd.Batch <= 0
    /\ gc.batches # <<>>
    /\ gc.currentID <= gc.cmd.StartID

\* The status is a client error.
Is4xx(status) == status >= 400 /\ status < 500

\* C38: a request answered 4xx by Receive, Authenticate, Parse, Validate or
\* Canonicalize (an invalid_request_error) is answered in the step in which it
\* arrived: it issued no SELECT, no UPDATE of last_accessed_at, no INSERT and
\* no upstream call, and the table is as it was.
C38_RefusedTouchesNothing ==
    [][\A w \in Workers :
          (/\ handler'[w] # handler[w]
           /\ handler'[w].pc = "done"
           /\ Is4xx(handler'[w].status)
           /\ handler'[w].errorType = "invalid_request_error")
          => /\ handler[w].pc \in {"idle", "completed"}
             /\ handler'[w].hashes = <<>>
             /\ handler'[w].upstreamCalls = 0
             /\ handler'[w].bumps = {}
             /\ handler'[w].events = {}
             /\ rows' = rows
             /\ nextID' = nextID
             /\ lastPut' = lastPut]_vars

\* A request with a malformed input has been answered 400 while the table
\* holds a row of an earlier request, which it left as it was.
C38_Witness ==
    \E w \in Workers :
        /\ handler[w].pc = "done"
        /\ handler[w].status = StatusBadRequest
        /\ handler[w].raw.Body.json
        /\ validateRequest(handler[w].raw, handler[w].apiKeyPattern) = 0
        /\ handler[w].upstreamCalls = 0
        /\ rows # {}

\* C39: a request with one text at both positions, whose two lookups found no
\* row and whose sub-request the upstream answered, is answered 200 with an
\* embedding of the text at either position, index k at position k, the same
\* vector at both, and the table holds exactly one row of the text's key.
C39_DuplicateInputsFilledOnce ==
    \A w \in Workers :
        LET h == handler[w]
        IN  (/\ h.pc = "done" /\ h.req # NoRequest
             /\ h.req.Input = DuplicateInput
             /\ h.bumps = {} /\ h.events = {}
             /\ h.upstreamStatus = StatusOK)
            => /\ h.status = StatusOK
               /\ Len(h.response.Data) = 2
               /\ \A k \in 1..2 : EntryFilled(h, k) /\ h.response.Data[k].Index = k - 1
               /\ h.response.Data[1].Embedding = h.response.Data[2].Embedding
               /\ Cardinality({ r \in rows :
                                  RowKey(r) = Key(Sha1Hex(StrA), h.req.Model,
                                                  RequestDimension(h.req)) }) = 1

\* The first request of a run had the text twice and has been answered 200
\* after one upstream call for both positions.
C39_Witness ==
    \E w \in Workers :
        /\ handler[w].pc = "done"
        /\ handler[w].status = StatusOK
        /\ handler[w].req.Input = DuplicateInput
        /\ handler[w].missedIndexes = <<0, 1>>
        /\ handler[w].upstreamCalls = 1
        /\ received = 1
        /\ Cardinality(rows) = 1

\* C40: every vector of a 200 response, a cache hit included, was produced by
\* the upstream for the logical input at its position, the same shape and the
\* same value, under the model and dimension of the request: a text and a
\* token sequence never share a row.
C40_HitIsForSameInput ==
    \A w \in Workers :
        LET h == handler[w]
        IN  (h.pc = "done" /\ h.status = StatusOK) =>
               \A k \in 1..Len(h.response.Data) :
                  /\ EntryFilled(h, k)
                  /\ h.response.Data[k].Embedding.vec.model = h.req.Model
                  /\ h.response.Data[k].Embedding.vec.dimension = RequestDimension(h.req)

\* The text of the bytes of the float64 2 has been answered from the row of
\* the token sequence [2], while the text "1,2,3" and the token sequence
\* [1, 2, 3] have rows of their own.
C40_Witness ==
    /\ \E w \in Workers :
          /\ handler[w].pc = "done" /\ handler[w].status = StatusOK
          /\ handler[w].req.Input = [type |-> "string", value |-> StrAtNul]
          /\ handler[w].upstreamCalls = 0
          /\ handler[w].response.Data[1].Embedding.vec.input = [kind |-> "tokens", value |-> <<2>>]
    /\ Sha1Hex(Str123) # numArrSha1(<<1, 2, 3>>)
    /\ Sha1Hex(StrAtNul) = numArrSha1(<<2>>)

====
